---- MODULE Spec2Model ----
(***************************************************************************)
(* A model of GrDrawContext (src/gpu/GrDrawContext.cpp): the dispatch      *)
(* facade that turns draw requests into batches queued on a deferred draw  *)
(* target.                                                                 *)
(*                                                                         *)
(* Coordinates are integers counting half pixels, so that the half-pixel   *)
(* outsets and the inverse of the 45-degree matrix stay exact: one device  *)
(* unit (SK_Scalar1) is 2.  A draw target is the sequence of the serial    *)
(* numbers of the commands it received; what each command was is kept for  *)
(* the commands of the most recent call, in last.trace.                    *)
(***************************************************************************)
EXTENDS Integers, Sequences, FiniteSets, TLC

\* Bounds of the model.
RTW == 2        \* render target width, in pixels
RTH == 2        \* render target height, in pixels
MaxCalls == 2   \* public entry-point calls per behaviour
MaxChk == 2     \* flush checkpoints of one call that may decide to flush

VARIABLES
    caps,       \* backend capabilities and target properties, fixed at start
    abandoned,  \* GrDrawingManager::wasAbandoned()
    dts,        \* the draw targets issued so far: [closed, cmds, refs]
    rtLast,     \* fRenderTarget->getLastDrawTarget(): index in dts, 0 = null
    alive,      \* which draw contexts exist
    handle,     \* fDrawTarget of each draw context: index in dts, 0 = null
    serial,     \* number of commands submitted so far
    calls,      \* number of entry-point calls so far
    last        \* the most recent call: its inputs, events and result

vars == <<caps, abandoned, dts, rtLast, alive, handle, serial, calls, last>>

Ctxs == {1, 2}

-----------------------------------------------------------------------------
(* Geometry: SkRect / SkIRect / SkPoint                                    *)

Min(a, b) == IF a < b THEN a ELSE b
Max(a, b) == IF a > b THEN a ELSE b
Abs(a) == IF a < 0 THEN -a ELSE a

Pt(x, y) == [x |-> x, y |-> y]
Rect(l, t, r, b) == [l |-> l, t |-> t, r |-> r, b |-> b]

RectIsEmpty(r) == r.l >= r.r \/ r.t >= r.b
RectWidth(r) == r.r - r.l
RectHeight(r) == r.b - r.t

\* SkIRect::contains(const SkIRect&): both non-empty and r inside a.
RectContains(a, r) ==
    /\ ~RectIsEmpty(r)
    /\ ~RectIsEmpty(a)
    /\ a.l <= r.l /\ a.t <= r.t /\ a.r >= r.r /\ a.b >= r.b

\* The rect that SkRect::intersect leaves when it returns true.
RectMeet(a, b) == Rect(Max(a.l, b.l), Max(a.t, b.t), Min(a.r, b.r), Min(a.b, b.b))

\* SkRect::intersect returns true iff both are non-empty and they overlap.
RectIntersects(a, b) ==
    /\ ~RectIsEmpty(a)
    /\ ~RectIsEmpty(b)
    /\ ~RectIsEmpty(RectMeet(a, b))

RectOutset(r, dx, dy) == Rect(r.l - dx, r.t - dy, r.r + dx, r.b + dy)

Corners(r) == <<Pt(r.l, r.t), Pt(r.r, r.t), Pt(r.r, r.b), Pt(r.l, r.b)>>

\* The sorted bounding rect of four points (SkMatrix::mapRect's result).
BoundsOf(q) ==
    Rect(Min(Min(q[1].x, q[2].x), Min(q[3].x, q[4].x)),
         Min(Min(q[1].y, q[2].y), Min(q[3].y, q[4].y)),
         Max(Max(q[1].x, q[2].x), Max(q[3].x, q[4].x)),
         Max(Max(q[1].y, q[2].y), Max(q[3].y, q[4].y)))

\* The render target's bounds: SkIRect::MakeWH(width(), height()).
RtRect == Rect(0, 0, 2 * RTW, 2 * RTH)

-----------------------------------------------------------------------------
(* View matrices: a few SkMatrix values, each with the queries the draw    *)
(* context asks of it.                                                     *)
(*   I     identity                                                        *)
(*   T     translate by one pixel in x                                     *)
(*   R45   (x, y) -> (x - y, x + y): rotation by 45 degrees with scale     *)
(*   Skew  (x, y) -> (x + y, y)                                            *)
(*   Persp a perspective matrix whose inverse halves the right edge        *)
(*   Tiny  a scale so small that invert() fails                            *)
(*   Sing  scale(0, 0)                                                     *)

Matrices == {"I", "T", "R45", "Skew", "Persp", "Tiny", "Sing"}

IsIdentity(m) == m = "I"
Invertible(m) == m \notin {"Tiny", "Sing"}
RectStaysRect(m) == m \in {"I", "T", "Tiny"}
PreservesRightAngles(m) == m \in {"I", "T", "R45", "Tiny"}
HasPerspective(m) == m = "Persp"

MapPt(m, p) ==
    CASE m = "I" -> p
      [] m = "T" -> Pt(p.x + 2, p.y)
      [] m = "R45" -> Pt(p.x - p.y, p.x + p.y)
      [] m = "Skew" -> Pt(p.x + p.y, p.y)
      [] m = "Persp" -> Pt((p.x * 2 * RTW) \div (2 * RTW - Min(p.x, 2 * RTW - 1)),
                           (p.y * 2 * RTW) \div (2 * RTW - Min(p.x, 2 * RTW - 1)))
      [] OTHER -> Pt(0, 0)

\* The inverse map, for invertible matrices; exact on whole-pixel points.
InvMapPt(m, p) ==
    CASE m = "I" -> p
      [] m = "T" -> Pt(p.x - 2, p.y)
      [] m = "R45" -> Pt((p.x + p.y) \div 2, (p.y - p.x) \div 2)
      [] m = "Skew" -> Pt(p.x - p.y, p.y)
      [] OTHER -> Pt((p.x * 2 * RTW) \div (p.x + 2 * RTW),
                     (p.y * 2 * RTW) \div (p.x + 2 * RTW))

\* SkMatrix::mapRect: the bounds of the mapped corners.
MapRect(m, r) ==
    LET c == Corners(r) IN BoundsOf([i \in 1..4 |-> MapPt(m, c[i])])
InvMapRect(m, r) ==
    LET c == Corners(r) IN BoundsOf([i \in 1..4 |-> InvMapPt(m, c[i])])
\* inverse.mapRectToQuad: the four mapped corners.
InvMapRectToQuad(m, r) ==
    LET c == Corners(r) IN [i \in 1..4 |-> InvMapPt(m, c[i])]

-----------------------------------------------------------------------------
(* Clips and paints                                                        *)

\* GrNoClip, or a clip to a device rect.
NoClip == [wideOpen |-> TRUE, rect |-> RtRect]
ClipTo(r) == [wideOpen |-> FALSE, rect |-> r]

\* GrClip::quickContains
ClipQuickContains(clip, r) == clip.wideOpen \/ RectContains(clip.rect, r)
\* GrClip::getConservativeBounds(width, height, &devBounds)
ClipConservativeBounds(clip) ==
    IF clip.wideOpen THEN RtRect
    ELSE IF RectIntersects(clip.rect, RtRect) THEN RectMeet(clip.rect, RtRect)
    ELSE Rect(0, 0, 0, 0)

\* A GrPaint: antialias flag, color, transfer mode, whether
\* isConstantBlendedColor() succeeds (it then yields the paint's color), and
\* its coverage fragment processors, in the order they were added.
Paint(aa, color, xp, constBlend) ==
    [aa |-> aa, color |-> color, xp |-> xp, constBlend |-> constBlend, cov |-> <<>>]

\* A GrStyle: stroke-rec style, join, half of the stroke width, path effect.
Style(kind, join, halfWidth, pathEffect) ==
    [kind |-> kind, join |-> join, r |-> halfWidth, pathEffect |-> pathEffect]
SimpleFill == Style("fill", "miter", 0, FALSE)

-----------------------------------------------------------------------------
(* Commands, events and the state a call runs on                           *)

\* What a draw target can be handed.  kind names the batch or command;
\* isNull says that the batch pointer handed over was null.
NoRect == Rect(0, 0, 0, 0)
NoCmd ==
    [kind |-> "none", rect |-> NoRect, vm |-> "I", color |-> 0, hwaa |-> FALSE,
     ss |-> FALSE, snap |-> FALSE, xp |-> "none", local |-> "none",
     localRect |-> NoRect, dev |-> NoRect, rad |-> 0, isNull |-> FALSE,
     cov |-> <<>>, inner |-> NoRect, aa |-> FALSE]
\* A command of the draw target itself: discard, clear, copy, ...
TargetCmd(kind, rect, color) ==
    [NoCmd EXCEPT !.kind = kind, !.rect = rect, !.color = color]
\* A draw batch with the pipeline built from (paint, useHWAA) and the
\* optional user stencil settings; aa is the paint's isAntiAlias().
Batch(kind, rect, vm, paint, useHWAA, ss) ==
    [NoCmd EXCEPT !.kind = kind, !.rect = rect, !.vm = vm, !.color = paint.color,
                  !.xp = paint.xp, !.hwaa = useHWAA, !.ss = ss, !.cov = paint.cov,
                  !.aa = paint.aa]

\* One step of a call, in the order the code takes them:
\*   getDT   getDrawTarget(): dt = the handle returned, flag = a new target
\*           was requested, aux = the handle held before, flag2 = the held
\*           target was closed
\*   submit  a command handed to draw target dt: flag = dt was open,
\*           aux = the command's serial number
\*   chk     the flush checkpoint: aux = its number in the call, flag = it
\*           flushed
\*   getPR   getPathRenderer(): aux = the tier, flag = software allowed,
\*           flag2 = a renderer was returned
\*   prDraw  the selected renderer's drawPath(): aux = the tier,
\*           flag = it is the software renderer
\*   filled  drawFilledRect() returns: flag = it returns true
\*   filledDRRect  drawFilledDRRect() returns: flag = it returns true
Event(e, dt, cmd, flag, aux, flag2) ==
    [e |-> e, dt |-> dt, cmd |-> cmd, flag |-> flag, aux |-> aux, flag2 |-> flag2]

\* The state a call starts on, for draw context c.
Start(c) ==
    [dts |-> dts, rtLast |-> rtLast, h |-> handle[c], serial |-> serial,
     trace |-> <<>>, chk |-> 0, used |-> {}, ret |-> "void", frames |-> <<>>]

Emit(st, ev) == [st EXCEPT !.trace = Append(@, ev)]
Ret(st, v) == [st EXCEPT !.ret = v]
\* The return of drawFilledRect, recorded.
RetFilled(st, v) ==
    Emit(Ret(st, v), Event("filled", 0, NoCmd, v = "true", 0, FALSE))
Use(st, f) == [st EXCEPT !.used = @ \cup {f}]
\* An activation of the handler fn, past its abandoned test, returns: it is
\* added to the record of the call's activations, with the argument arg it
\* was entered with.  The handlers recorded call at most one recorded handler
\* per activation, as the last thing they do, so the activations of a call are
\* nested in one another, the innermost first in the record.
Frame(st, fn, arg) == [st EXCEPT !.frames = Append(@, [fn |-> fn, arg |-> arg])]

\* GrDrawingManager::newDrawTarget(rt): a fresh, open draw target, which
\* becomes the render target's last draw target.  The pointer it returns
\* carries one reference for the draw context (refs counts the references
\* draw contexts have taken on the target and not released).
newDrawTarget(st) ==
    [st EXCEPT !.dts = Append(@, [closed |-> FALSE, cmds |-> <<>>, refs |-> 1]),
               !.rtLast = Len(st.dts) + 1,
               !.h = Len(st.dts) + 1]

\* GrDrawTarget::isClosed() of the held handle.
HeldClosed(st) == st.h # 0 /\ st.dts[st.h].closed

\* getDrawTarget, were it to replace only a null handle and keep a closed one.
getDrawTarget_OnlyWhenNull(st) ==
    LET st1 == IF st.h = 0 THEN newDrawTarget(st) ELSE st
    IN  Emit(st1, Event("getDT", st1.h, NoCmd, st1.h # st.h, st.h, HeldClosed(st)))

\* GrDrawContext::getDrawTarget.  The handle is a plain pointer: assigning
\* the new target to it leaves the references on the old one as they were.
getDrawTarget(st) ==
    LET st1 == IF st.h = 0 \/ st.dts[st.h].closed THEN newDrawTarget(st) ELSE st
    IN  Emit(st1, Event("getDT", st1.h, NoCmd, st1.h # st.h, st.h, HeldClosed(st)))

\* A method of GrDrawTarget that records a command (discard, addBatch,
\* drawBatch, copySurface, stencilPath, clearStencilClip): the command is
\* appended to the target's queue.
Record(st, cmd) ==
    LET n == st.serial + 1 IN
    [st EXCEPT !.dts[st.h].cmds = Append(@, n),
               !.serial = n,
               !.trace = Append(@, Event("submit", st.h, cmd, ~st.dts[st.h].closed, n, FALSE))]

\* this->getDrawTarget()->method(...)
Submit(st, cmd) == Record(getDrawTarget(st), cmd)

\* GrDrawingManager::flush: every draw target is closed.
CloseAll(d) == [i \in 1..Len(d) |-> [d[i] EXCEPT !.closed = TRUE]]

\* ~AutoCheckFlush: GrContext::flushIfNecessary().  Whether it flushes is the
\* manager's policy: o.flushAt names the checkpoints of this call that do.
flushIfNecessary(st, o) ==
    LET k == st.chk + 1
        doFlush == k \in o.flushAt
        st1 == [st EXCEPT !.chk = k,
                          !.dts = IF doFlush THEN CloseAll(@) ELSE @]
    IN  Emit(st1, Event("chk", 0, NoCmd, doFlush, k, FALSE))

-----------------------------------------------------------------------------
(* What the collaborators answer during one call (the oracle o):           *)
(*   o.flushAt  the checkpoints of the call at which the manager flushes   *)
(*   o.ir       InstancedRendering::recordX: "null", or a batch with the   *)
(*              instanced renderer's choice of coverage AA ("cov") or      *)
(*              hardware AA ("hw")                                         *)
(*   o.irLocal  InstancedRendering::recordRect with a local matrix, asked   *)
(*              by fillRectWithLocalMatrix: as o.ir                        *)
(*   o.ok       the fallible collaborator call of the code path (the batch *)
(*              factory whose result the code tests, or copySurface)       *)
(*              yields a batch / succeeds                                  *)
(*   o.pr       the first tier of internalDrawPath at which the renderer   *)
(*              chain has a renderer: "none", "t1", "t2", "t3" (a GPU      *)
(*              renderer) or "t3sw" (only the software renderer)           *)

\* GrDrawTarget::instancedRendering() is non-null and recordX returns a batch.
InstancedBatch(o) == caps.instanced /\ o.ir # "null"

\* GrDrawingManager::getPathRenderer(args, allowSW, drawType) at a tier.
getPathRenderer(tier, allowSW, o) ==
    CASE tier = 1 /\ o.pr = "t1" -> "gpu"
      [] tier = 2 /\ o.pr = "t2" -> "gpu"
      [] tier = 3 /\ o.pr = "t3" -> "gpu"
      [] tier = 3 /\ o.pr = "t3sw" /\ allowSW -> "sw"
      [] OTHER -> "none"

\* A path: its geometry, fill inversion, and whether applying the style's
\* path effect, or its stroke, leaves nothing.  A path of two contours has the
\* second one's bounds in inner, whether both are wound in the same direction
\* in sameDir, and an even-odd (rather than winding) fill type in evenOdd.
Path(geom, rect, rad, inverse, peEmpty, strokeEmpty) ==
    [geom |-> geom, rect |-> rect, rad |-> rad, inverse |-> inverse,
     peEmpty |-> peEmpty, strokeEmpty |-> strokeEmpty,
     inner |-> NoRect, sameDir |-> FALSE, evenOdd |-> FALSE]
\* SkPath::addRect / addRRect on a new volatile path.
PathOfRect(r) == Path("rect", r, 0, FALSE, FALSE, FALSE)
PathOfRRect(rr) == Path("rrect", rr.rect, rr.rad, FALSE, FALSE, FALSE)
PathOfOval(oval) == Path("oval", oval, 0, FALSE, FALSE, FALSE)
PathIsEmpty(path) == path.geom = "empty"
\* SkPath::isConvex, isOval and isNestedFillRects
PathIsConvex(path) == path.geom \in {"rect", "rrect", "oval"}
PathIsOval(path) == path.geom = "oval"
PathIsNestedFillRects(path) == path.geom = "nested"
\* Two rect contours: outer, then inner.
NestedRects(outer, inner, sameDir, evenOdd, inverse) ==
    [Path("nested", outer, 0, inverse, FALSE, FALSE)
        EXCEPT !.inner = inner, !.sameDir = sameDir, !.evenOdd = evenOdd]

\* SkRRect::MakeRectXY and SkRRect::isEmpty
RRect(rect, rad) == [rect |-> rect, rad |-> rad]
RRectIsEmpty(rr) == RectIsEmpty(rr.rect)
\* The empty SkRRect (SkRRect::setEmpty) and SkRRect::transform, which
\* succeeds for matrices that only scale and translate.
EmptyRRect == RRect(NoRect, 0)
RRectTransforms(m) == m \in {"I", "T", "Tiny", "Sing"}
\* addRRect(inner), addRRect(outer), setFillType(kEvenOdd_FillType): an empty
\* round rect adds no contour.
PathOfDRRect(outer, inner) ==
    IF RRectIsEmpty(outer) /\ RRectIsEmpty(inner)
    THEN Path("empty", NoRect, 0, FALSE, FALSE, FALSE)
    ELSE IF RRectIsEmpty(inner) THEN [PathOfRRect(outer) EXCEPT !.evenOdd = TRUE]
    ELSE IF RRectIsEmpty(outer) THEN [PathOfRRect(inner) EXCEPT !.evenOdd = TRUE]
    ELSE [Path("drrect", outer.rect, outer.rad, FALSE, FALSE, FALSE)
             EXCEPT !.inner = inner.rect, !.evenOdd = TRUE]

\* GrStyle::applies(): a path effect, or a stroke that must be applied.
StyleApplies(style) == style.pathEffect \/ style.kind \in {"stroke", "strokeAndFill"}
\* GrStyle::isSimpleFill()
IsSimpleFill(style) == style.kind = "fill" /\ ~style.pathEffect

-----------------------------------------------------------------------------
(* GrDrawContext                                                           *)

\* rect_contains_inclusive, were it to exclude the rect's edges.
rect_contains_inclusive_Strict(rect, point) ==
    /\ point.x > rect.l /\ point.x < rect.r
    /\ point.y > rect.t /\ point.y < rect.b

rect_contains_inclusive(rect, point) ==
    /\ point.x >= rect.l /\ point.x <= rect.r
    /\ point.y >= rect.t /\ point.y <= rect.b

\* view_matrix_ok_for_aa_fill_rect, were it to ask for rectStaysRect.
view_matrix_ok_RectStaysRect(viewMatrix) == RectStaysRect(viewMatrix)

view_matrix_ok_for_aa_fill_rect(viewMatrix) == PreservesRightAngles(viewMatrix)

\* should_apply_coverage_aa, were it to look at the paint alone.
should_apply_coverage_aa_IgnoresMSAA(paint) ==
    [cov |-> paint.aa, hwaa |-> FALSE]

\* should_apply_coverage_aa, were it to set *useHWAA for every antialiased
\* paint.
should_apply_coverage_aa_HWFromPaint(paint) ==
    IF ~paint.aa THEN [cov |-> FALSE, hwaa |-> FALSE]
    ELSE [cov |-> ~caps.msaa, hwaa |-> TRUE]

\* should_apply_coverage_aa: the result, and what *useHWAA is set to.
should_apply_coverage_aa(paint) ==
    IF ~paint.aa THEN [cov |-> FALSE, hwaa |-> FALSE]
    ELSE [cov |-> ~caps.msaa, hwaa |-> caps.msaa]

\* GrDrawContext::mustUseHWAA
mustUseHWAA(paint) == paint.aa /\ caps.msaa

\* crop_filled_rect without a local rect: ok = the draw is not skipped.
crop_filled_rect(clip, viewMatrix, rect) ==
    IF ~RectStaysRect(viewMatrix) THEN [ok |-> TRUE, rect |-> rect]
    ELSE IF ~Invertible(viewMatrix) THEN [ok |-> FALSE, rect |-> rect]
    ELSE LET clipBounds == InvMapRect(viewMatrix, ClipConservativeBounds(clip))
         IN  IF RectIntersects(rect, clipBounds)
             THEN [ok |-> TRUE, rect |-> RectMeet(rect, clipBounds)]
             ELSE [ok |-> FALSE, rect |-> rect]

\* GrDrawContext::drawBatch
drawBatch(st, batch) ==
    IF abandoned THEN st ELSE Submit(st, batch)

\* GrDrawContext::copySurface
copySurface(st, o) ==
    IF abandoned THEN Ret(st, "false")
    ELSE Ret(Use(Submit(st, TargetCmd("Copy", RtRect, 0)), "ok"),
             IF o.ok THEN "true" ELSE "false")

\* GrDrawContext::discard
discard(st, o) ==
    IF abandoned THEN st
    ELSE flushIfNecessary(Submit(st, TargetCmd("Discard", RtRect, 0)), o)

\* GrDrawContext::drawNonAAFilledRect
drawNonAAFilledRect(st, clip, paint, viewMatrix, rect, local, ss) ==
    Submit(st, [Batch("NonAAFill", rect, viewMatrix, paint, mustUseHWAA(paint), ss)
                    EXCEPT !.local = local.kind, !.localRect = local.rect])

NoLocal == [kind |-> "none", rect |-> NoRect]
LocalMatrix(m) == [kind |-> m, rect |-> NoRect]

\* drawFilledRect, were it to try the AA-fill batch before the instanced renderer.
drawFilledRect_AAFirst(st, clip, paint, viewMatrix, rect, ss, o) ==
    LET crop == crop_filled_rect(clip, viewMatrix, rect)
        st1 == IF caps.instanced THEN Use(getDrawTarget(st), "ir") ELSE getDrawTarget(st)
        aa == should_apply_coverage_aa(paint)
    IN  IF ~crop.ok THEN RetFilled(st, "true")
        ELSE IF aa.cov /\ view_matrix_ok_for_aa_fill_rect(viewMatrix) /\ o.ok
        THEN RetFilled(Submit(Use(st1, "ok"),
                              [Batch("AAFill", crop.rect, viewMatrix, paint, aa.hwaa, ss)
                                  EXCEPT !.dev = MapRect(viewMatrix, crop.rect)]),
                       "true")
        ELSE IF InstancedBatch(o)
        THEN RetFilled(Submit(st1, Batch("InstRect", crop.rect, viewMatrix, paint,
                                         o.ir = "hw", ss)),
                       "true")
        ELSE IF aa.cov THEN RetFilled(Use(st1, "ok"), "false")
        ELSE RetFilled(drawNonAAFilledRect(st1, clip, paint, viewMatrix, crop.rect,
                                           NoLocal, ss),
                       "true")

\* GrDrawContext::drawFilledRect
drawFilledRect(st, clip, paint, viewMatrix, rect, ss, o) ==
    LET crop == crop_filled_rect(clip, viewMatrix, rect)
        croppedRect == crop.rect
        \* this->getDrawTarget()->instancedRendering()
        st1 == IF caps.instanced THEN Use(getDrawTarget(st), "ir") ELSE getDrawTarget(st)
        aa == should_apply_coverage_aa(paint)
    IN  IF ~crop.ok THEN RetFilled(st, "true")
        ELSE IF InstancedBatch(o)
        THEN RetFilled(Submit(st1, Batch("InstRect", croppedRect, viewMatrix, paint,
                                   o.ir = "hw", ss)),
                 "true")
        ELSE IF aa.cov
        THEN IF view_matrix_ok_for_aa_fill_rect(viewMatrix)
             THEN IF o.ok
                  THEN RetFilled(Submit(Use(st1, "ok"),
                                  [Batch("AAFill", croppedRect, viewMatrix, paint,
                                         aa.hwaa, ss)
                                      EXCEPT !.dev = MapRect(viewMatrix, croppedRect)]),
                           "true")
                  ELSE RetFilled(Use(st1, "ok"), "false")
             ELSE RetFilled(st1, "false")
        ELSE RetFilled(drawNonAAFilledRect(st1, clip, paint, viewMatrix, croppedRect,
                                     NoLocal, ss),
                 "true")

\* GrPathRenderer::drawPath of the selected renderer: it draws through the
\* draw context it was given.
PathRendererDraw(st, pr, tier, paint, viewMatrix, path, ss) ==
    drawBatch(Emit(st, Event("prDraw", 0, NoCmd, pr = "sw", tier, FALSE)),
              Batch(IF pr = "sw" THEN "SWPath" ELSE "Path", path.rect, viewMatrix,
                    paint, mustUseHWAA(paint), ss))

\* One query of the renderer chain, recorded.
QueryPR(st, tier, allowSW, o) ==
    Emit(Use(st, CASE tier = 1 -> "pr1" [] tier = 2 -> "pr2" [] OTHER -> "pr3"),
         Event("getPR", 0, NoCmd, allowSW, tier, getPathRenderer(tier, allowSW, o) # "none"))

\* internalDrawPath, were the path effect applied before the first query, so
\* that a shape with a path effect is first asked for at the second tier.
internalDrawPath_EffectFirst(st, clip, paint, viewMatrix, path, style, o) ==
    LET tier2 == style.pathEffect
        pr2 == getPathRenderer(IF tier2 THEN 2 ELSE 1, FALSE, o)
        st2 == QueryPR(st, IF tier2 THEN 2 ELSE 1, FALSE, o)
        style2 == [style EXCEPT !.pathEffect = FALSE]
        tier3 == pr2 = "none"
        emptyAt3 == tier3 /\ StyleApplies(style2) /\ path.strokeEmpty
        pr3 == IF tier3 THEN getPathRenderer(3, TRUE, o) ELSE pr2
        st3 == IF tier3 THEN QueryPR(st2, 3, TRUE, o) ELSE st2
        tier == IF tier3 THEN 3 ELSE IF tier2 THEN 2 ELSE 1
    IN  IF abandoned THEN st
        ELSE IF PathIsEmpty(path) THEN st
        ELSE IF tier2 /\ path.peEmpty THEN st
        ELSE IF emptyAt3 THEN st2
        ELSE IF pr3 = "none" THEN st3
        ELSE PathRendererDraw(st3, pr3, tier, paint, viewMatrix, path, FALSE)

\* GrDrawContext::internalDrawPath
internalDrawPath(st, clip, paint, viewMatrix, path, style, o) ==
    LET pr1 == getPathRenderer(1, FALSE, o)
        st1 == QueryPR(st, 1, FALSE, o)
        tier2 == pr1 = "none" /\ style.pathEffect
        pr2 == IF tier2 THEN getPathRenderer(2, FALSE, o) ELSE pr1
        st2 == IF tier2 THEN QueryPR(st1, 2, FALSE, o) ELSE st1
        \* the style left on the shape after tier 2
        style2 == IF tier2 THEN [style EXCEPT !.pathEffect = FALSE] ELSE style
        tier3 == pr2 = "none"
        emptyAt3 == /\ tier3
                    /\ StyleApplies(style2)
                    /\ \/ style2.pathEffect /\ path.peEmpty
                       \/ path.strokeEmpty
        pr3 == IF tier3 THEN getPathRenderer(3, TRUE, o) ELSE pr2
        st3 == IF tier3 THEN QueryPR(st2, 3, TRUE, o) ELSE st2
        tier == IF tier3 THEN 3 ELSE IF tier2 THEN 2 ELSE 1
    IN  IF abandoned THEN st
        ELSE IF PathIsEmpty(path) THEN st
        ELSE IF tier2 /\ path.peEmpty THEN st1
        ELSE IF emptyAt3 THEN st2
        ELSE IF pr3 = "none" THEN st3
        ELSE PathRendererDraw(st3, pr3, tier, paint, viewMatrix, path, FALSE)

\* GrDrawContext::drawRRect
drawRRect(st, clip, paint, viewMatrix, rrect, style, o) ==
    LET fill == style.kind = "fill"
        \* this->getDrawTarget()->instancedRendering() && stroke.isFillStyle()
        st0 == getDrawTarget(st)
        st1 == IF caps.instanced /\ fill THEN Use(getDrawTarget(st0), "ir") ELSE st0
        aa == should_apply_coverage_aa(paint)
        body ==
            IF caps.instanced /\ fill /\ InstancedBatch(o)
            THEN Submit(st1, [Batch("InstRRect", rrect.rect, viewMatrix, paint,
                                    o.ir = "hw", FALSE)
                                 EXCEPT !.rad = rrect.rad])
            ELSE IF aa.cov /\ o.ok
            THEN Submit(Use(st1, "ok"),
                        [Batch("RRect", rrect.rect, viewMatrix, paint, aa.hwaa, FALSE)
                            EXCEPT !.rad = rrect.rad])
            ELSE internalDrawPath(IF aa.cov THEN Use(st1, "ok") ELSE st1,
                                  clip, paint, viewMatrix, PathOfRRect(rrect), style, o)
    IN  IF abandoned THEN st
        ELSE Frame(IF RRectIsEmpty(rrect) THEN st ELSE flushIfNecessary(body, o),
                   "drawRRect", style.kind)

\* StrokeAsFill, were a miter join's outset of a zero-height rect vertical only.
StrokeAsFill_MiterVertical(rect, r, join) ==
    IF join = "miter" /\ RectHeight(rect) = 0
    THEN [rrect |-> FALSE, rect |-> Rect(rect.l, rect.t - r, rect.r, rect.b + r)]
    ELSE IF join = "miter"
    THEN [rrect |-> FALSE, rect |-> Rect(rect.l - r, rect.t - r, rect.r + r, rect.b + r)]
    ELSE IF join = "round" /\ (RectWidth(rect) # 0 \/ RectHeight(rect) # 0)
    THEN [rrect |-> TRUE, rect |-> RectOutset(rect, r, r)]
    ELSE IF RectWidth(rect) = 0
    THEN [rrect |-> FALSE, rect |-> Rect(rect.l - r, rect.t, rect.r + r, rect.b)]
    ELSE [rrect |-> FALSE, rect |-> Rect(rect.l, rect.t - r, rect.r, rect.b + r)]

\* StrokeAsFill, were a bevel join's outset that of a miter join.
StrokeAsFill_BevelAllSides(rect, r, join) ==
    IF join = "round" /\ (RectWidth(rect) # 0 \/ RectHeight(rect) # 0)
    THEN [rrect |-> TRUE, rect |-> RectOutset(rect, r, r)]
    ELSE [rrect |-> FALSE, rect |-> Rect(rect.l - r, rect.t - r, rect.r + r, rect.b + r)]

\* GrDrawContext::drawRect, the switch on the join of a stroke of a rect with
\* no width or no height: the shape that is filled instead, a rect or (rrect)
\* a round rect with radii r.  A round join of a rect with neither width nor
\* height falls through to the bevel case.
StrokeAsFill(rect, r, join) ==
    IF join = "miter"
    THEN [rrect |-> FALSE, rect |-> Rect(rect.l - r, rect.t - r, rect.r + r, rect.b + r)]
    ELSE IF join = "round" /\ (RectWidth(rect) # 0 \/ RectHeight(rect) # 0)
    THEN [rrect |-> TRUE, rect |-> RectOutset(rect, r, r)]
    ELSE IF RectWidth(rect) = 0
    THEN [rrect |-> FALSE, rect |-> Rect(rect.l - r, rect.t, rect.r + r, rect.b)]
    ELSE [rrect |-> FALSE, rect |-> Rect(rect.l, rect.t - r, rect.r, rect.b + r)]

RECURSIVE clear(_, _, _, _, _)
RECURSIVE drawRect(_, _, _, _, _, _, _)

\* The rect argument of clear: a null pointer, or a rect.
NullRect == [isNull |-> TRUE, rect |-> NoRect]
SomeRect(r) == [isNull |-> FALSE, rect |-> r]

\* The paint clear() draws with: the color, with a kSrc_Mode transfer mode.
ClearPaint(color) == Paint(FALSE, color, "src", TRUE)

\* ClearsWholeTarget, were it to disregard canIgnoreRect.
ClearsWholeTarget_IgnoresFlag(rect, canIgnoreRect) ==
    \/ rect.isNull
    \/ RectContains(rect.rect, RtRect)

\* GrDrawContext::clear: the test that replaces rect by the whole target.
ClearsWholeTarget(rect, canIgnoreRect) ==
    \/ rect.isNull
    \/ canIgnoreRect /\ caps.fullClearIsFree
    \/ RectContains(rect.rect, RtRect)

\* clear, were it to discard after drawing the rect.
clear_DiscardLast(st, rect, color, canIgnoreRect, o) ==
    LET whole == ClearsWholeTarget(rect, canIgnoreRect)
        r == IF whole THEN RtRect ELSE RectMeet(rect.rect, RtRect)
        drawn == drawRect(st, NoClip, ClearPaint(color), "I", r, SimpleFill, o)
        body ==
            IF ~whole /\ ~RectIntersects(rect.rect, RtRect) THEN st
            ELSE IF caps.useDrawInsteadOfClear
            THEN IF whole THEN discard(drawn, o) ELSE drawn
            ELSE Submit(st, TargetCmd("Clear", r, color))
    IN  IF abandoned THEN st ELSE flushIfNecessary(body, o)

\* clear, were it to discard before every drawn rect.
clear_AlwaysDiscard(st, rect, color, canIgnoreRect, o) ==
    LET whole == ClearsWholeTarget(rect, canIgnoreRect)
        r == IF whole THEN RtRect ELSE RectMeet(rect.rect, RtRect)
        body ==
            IF ~whole /\ ~RectIntersects(rect.rect, RtRect) THEN st
            ELSE IF caps.useDrawInsteadOfClear
            THEN drawRect(discard(st, o), NoClip, ClearPaint(color), "I", r, SimpleFill, o)
            ELSE Submit(st, TargetCmd("Clear", r, color))
    IN  IF abandoned THEN st ELSE flushIfNecessary(body, o)

\* GrDrawContext::clear
clear(st, rect, color, canIgnoreRect, o) ==
    LET whole == ClearsWholeTarget(rect, canIgnoreRect)
        r == IF whole THEN RtRect ELSE RectMeet(rect.rect, RtRect)
        body ==
            IF ~whole /\ ~RectIntersects(rect.rect, RtRect) THEN st
            ELSE IF caps.useDrawInsteadOfClear
            THEN drawRect(IF whole THEN discard(st, o) ELSE st,
                          NoClip, ClearPaint(color), "I", r, SimpleFill, o)
            ELSE Submit(st, TargetCmd("Clear", r, color))
    IN  IF abandoned THEN st ELSE Frame(flushIfNecessary(body, o), "clear", "")

\* GrDrawContext::drawRect
drawRect(st, clip, paint, viewMatrix, rect, style, o) ==
    LET \* the fallback at the end: the rect as a volatile path
        asPath(s) == internalDrawPath(s, clip, paint, viewMatrix, PathOfRect(rect), style, o)
        \* fill style
        tryClear == ~caps.useDrawInsteadOfClear /\ ClipQuickContains(clip, RtRect)
        srcSpaceRTQuad == InvMapRectToQuad(viewMatrix, RtRect)
        filled == drawFilledRect(st, clip, paint, viewMatrix, rect, FALSE, o)
        fillBody ==
            IF tryClear /\ ~Invertible(viewMatrix) THEN st
            ELSE IF /\ tryClear
                    /\ \A i \in 1..4 : rect_contains_inclusive(rect, srcSpaceRTQuad[i])
                    /\ paint.constBlend
            THEN clear(st, NullRect, paint.color, TRUE, o)
            ELSE IF filled.ret = "true" THEN Ret(filled, "void")
            ELSE asPath(Ret(filled, "void"))
        \* stroke and hairline styles
        r == style.r
        degenerate == /\ RectWidth(rect) = 0 \/ RectHeight(rect) = 0
                      /\ style.kind # "hairline"
        asFill == StrokeAsFill(rect, r, style.join)
        degenerateBody ==
            IF asFill.rrect
            THEN drawRRect(st, clip, paint, viewMatrix, RRect(asFill.rect, r), SimpleFill, o)
            ELSE drawRect(st, clip, paint, viewMatrix, asFill.rect, SimpleFill, o)
        aa == should_apply_coverage_aa(paint)
        snapToPixelCenters == ~aa.cov /\ style.kind = "hairline" /\ ~caps.msaa
        \* whether a stroke batch factory is called, and whether it gives a batch
        asked == ~aa.cov \/ RectStaysRect(viewMatrix)
        st1 == IF asked THEN Use(st, "ok") ELSE st
        strokeBody ==
            IF asked /\ o.ok
            THEN Submit(st1, [Batch(IF aa.cov THEN "AAStroke" ELSE "NonAAStroke",
                                    rect, viewMatrix, paint, aa.hwaa, FALSE)
                                 EXCEPT !.snap = snapToPixelCenters, !.rad = r])
            ELSE asPath(st1)
        body ==
            IF style.kind = "fill" THEN fillBody
            ELSE IF style.kind \in {"stroke", "hairline"}
            THEN IF degenerate THEN degenerateBody ELSE strokeBody
            ELSE asPath(st)
    IN  IF abandoned THEN st
        ELSE Frame(flushIfNecessary(body, o), "drawRect", style.kind)

\* drawPaint, were it to draw with the caller's paint as it is.
drawPaint_KeepsAA(st, clip, origPaint, viewMatrix, o) ==
    LET r == RtRect
    IN  IF abandoned THEN st
        ELSE IF ~Invertible(viewMatrix) THEN st
        ELSE IF ~HasPerspective(viewMatrix)
        THEN drawRect(st, clip, origPaint, viewMatrix, InvMapRect(viewMatrix, r), SimpleFill, o)
        ELSE flushIfNecessary(
                 drawNonAAFilledRect(st, clip, origPaint, "I", r, LocalMatrix("inverse"), FALSE),
                 o)

\* GrDrawContext::drawPaint
drawPaint(st, clip, origPaint, viewMatrix, o) ==
    LET r == RtRect
        paint == [origPaint EXCEPT !.aa = FALSE]
        body ==
            IF ~Invertible(viewMatrix) THEN st
            ELSE IF ~HasPerspective(viewMatrix)
            THEN drawRect(st, clip, paint, viewMatrix, InvMapRect(viewMatrix, r),
                          SimpleFill, o)
            ELSE flushIfNecessary(
                     drawNonAAFilledRect(st, clip, paint, "I", r, LocalMatrix("inverse"),
                                         FALSE),
                     o)
    IN  IF abandoned THEN st ELSE Frame(body, "drawPaint", "")

\* GrDrawContextPriv::clearStencilClip
clearStencilClip(st, rect, o) ==
    IF abandoned THEN st
    ELSE flushIfNecessary(Submit(st, TargetCmd("ClearStencilClip", rect, 0)), o)

\* GrDrawContextPriv::stencilPath
stencilPath(st, clip, ss, useHWAA, viewMatrix, path) ==
    Submit(st, [TargetCmd("StencilPath", path.rect, 0)
                   EXCEPT !.vm = viewMatrix, !.hwaa = useHWAA, !.ss = ss])

\* GrDrawContextPriv::stencilRect
stencilRect(st, clip, ss, useHWAA, viewMatrix, rect, o) ==
    LET paint == Paint(useHWAA, 0, "disableColor", FALSE)
    IN  IF abandoned THEN st
        ELSE flushIfNecessary(
                 Ret(drawFilledRect(st, clip, paint, viewMatrix, rect, ss, o), "void"), o)

RECURSIVE drawAndStencilRect(_, _, _, _, _, _, _)
RECURSIVE drawAndStencilPath(_, _, _, _, _, _, _)

\* The paint of the draw-and-stencil variants: setCoverageSetOpXPFactory.
CoverageSetOpPaint(doAA) == Paint(doAA, 0, "coverageSetOp", FALSE)

\* drawAndStencilRect, were it to report the rect drawn whatever
\* drawAndStencilPath returns.
drawAndStencilRect_AlwaysTrue(st, clip, ss, doAA, viewMatrix, rect, o) ==
    LET filled == drawFilledRect(st, clip, CoverageSetOpPaint(doAA), viewMatrix, rect, ss, o)
        body == IF filled.ret = "true" THEN filled
                ELSE Ret(drawAndStencilPath(filled, clip, ss, doAA, viewMatrix,
                                            PathOfRect(rect), o),
                         "true")
    IN  IF abandoned THEN Ret(st, "false") ELSE flushIfNecessary(body, o)

\* GrDrawContextPriv::drawAndStencilRect
drawAndStencilRect(st, clip, ss, doAA, viewMatrix, rect, o) ==
    LET filled == drawFilledRect(st, clip, CoverageSetOpPaint(doAA), viewMatrix, rect, ss, o)
        body == IF filled.ret = "true" THEN filled
                ELSE drawAndStencilPath(filled, clip, ss, doAA, viewMatrix,
                                        PathOfRect(rect), o)
    IN  IF abandoned THEN Ret(st, "false")
        ELSE Frame(flushIfNecessary(body, o), "drawAndStencilRect",
                   IF doAA THEN "aa" ELSE "")

\* drawAndStencilPath, were its query to allow the software renderer.
drawAndStencilPath_AllowSW(st, clip, ss, doAA, viewMatrix, path, o) ==
    LET pr == getPathRenderer(3, TRUE, o)
        st1 == QueryPR(st, 3, TRUE, o)
        body == IF pr = "none" THEN Ret(st1, "false")
                ELSE Ret(PathRendererDraw(st1, pr, 3, CoverageSetOpPaint(FALSE),
                                          viewMatrix, path, ss),
                         "true")
    IN  IF abandoned THEN Ret(st, "false")
        ELSE IF PathIsEmpty(path) /\ path.inverse
        THEN Ret(drawAndStencilRect(st, clip, ss, FALSE, "I", RtRect, o), "true")
        ELSE flushIfNecessary(body, o)

\* drawAndStencilPath, were it to hand its own doAA to drawAndStencilRect.
drawAndStencilPath_PassesAA(st, clip, ss, doAA, viewMatrix, path, o) ==
    LET pr == getPathRenderer(1, FALSE, o)
        st1 == QueryPR(st, 1, FALSE, o)
        body == IF pr = "none" THEN Ret(st1, "false")
                ELSE Ret(PathRendererDraw(st1, pr, 1, CoverageSetOpPaint(FALSE),
                                          viewMatrix, path, ss),
                         "true")
    IN  IF abandoned THEN Ret(st, "false")
        ELSE Frame(IF PathIsEmpty(path) /\ path.inverse
                   THEN Ret(drawAndStencilRect(st, clip, ss, doAA, "I", RtRect, o), "true")
                   ELSE flushIfNecessary(body, o),
                   "drawAndStencilPath", IF doAA THEN "aa" ELSE "")

\* GrDrawContextPriv::drawAndStencilPath
drawAndStencilPath(st, clip, ss, doAA, viewMatrix, path, o) ==
    LET pr == getPathRenderer(1, FALSE, o)
        st1 == QueryPR(st, 1, FALSE, o)
        body == IF pr = "none" THEN Ret(st1, "false")
                ELSE Ret(PathRendererDraw(st1, pr, 1, CoverageSetOpPaint(FALSE),
                                          viewMatrix, path, ss),
                         "true")
    IN  IF abandoned THEN Ret(st, "false")
        ELSE Frame(IF PathIsEmpty(path) /\ path.inverse
                   THEN Ret(drawAndStencilRect(st, clip, ss, FALSE, "I", RtRect, o), "true")
                   ELSE flushIfNecessary(body, o),
                   "drawAndStencilPath", IF doAA THEN "aa" ELSE "")

\* drawOval, were it to try the oval batch before the instanced renderer.
drawOval_CoverageFirst(st, clip, paint, viewMatrix, oval, style, o) ==
    LET fill == style.kind = "fill"
        st0 == getDrawTarget(st)
        st1 == IF caps.instanced /\ fill THEN Use(getDrawTarget(st0), "ir") ELSE st0
        aa == should_apply_coverage_aa(paint)
        body ==
            IF aa.cov /\ o.ok
            THEN Submit(Use(st1, "ok"), Batch("Oval", oval, viewMatrix, paint, aa.hwaa, FALSE))
            ELSE IF caps.instanced /\ fill /\ InstancedBatch(o)
            THEN Submit(IF aa.cov THEN Use(st1, "ok") ELSE st1,
                        Batch("InstOval", oval, viewMatrix, paint, o.ir = "hw", FALSE))
            ELSE internalDrawPath(IF aa.cov THEN Use(st1, "ok") ELSE st1,
                                  clip, paint, viewMatrix, PathOfOval(oval), style, o)
    IN  IF abandoned THEN st
        ELSE IF RectIsEmpty(oval) THEN st
        ELSE flushIfNecessary(body, o)

\* GrDrawContext::drawOval
drawOval(st, clip, paint, viewMatrix, oval, style, o) ==
    LET fill == style.kind = "fill"
        \* this->getDrawTarget()->instancedRendering() && stroke.isFillStyle()
        st0 == getDrawTarget(st)
        st1 == IF caps.instanced /\ fill THEN Use(getDrawTarget(st0), "ir") ELSE st0
        aa == should_apply_coverage_aa(paint)
        body ==
            IF caps.instanced /\ fill /\ InstancedBatch(o)
            THEN Submit(st1, Batch("InstOval", oval, viewMatrix, paint, o.ir = "hw", FALSE))
            ELSE IF aa.cov /\ o.ok
            THEN Submit(Use(st1, "ok"), Batch("Oval", oval, viewMatrix, paint, aa.hwaa, FALSE))
            ELSE internalDrawPath(IF aa.cov THEN Use(st1, "ok") ELSE st1,
                                  clip, paint, viewMatrix, PathOfOval(oval), style, o)
    IN  IF abandoned THEN st
        ELSE IF RectIsEmpty(oval) THEN st
        ELSE flushIfNecessary(body, o)

\* GrDrawContext::fillRectWithLocalMatrix.  The AA-fill batch is handed to the
\* draw target as the factory returned it, null or not.
fillRectWithLocalMatrix(st, clip, paint, viewMatrix, rectToDraw, localMatrix, o) ==
    LET crop == crop_filled_rect(clip, viewMatrix, rectToDraw)
        croppedRect == crop.rect
        st1 == IF caps.instanced THEN Use(getDrawTarget(st), "irLocal") ELSE getDrawTarget(st)
        aa == should_apply_coverage_aa(paint)
        body ==
            IF caps.instanced /\ o.irLocal # "null"
            THEN Submit(st1, [Batch("InstRect", croppedRect, viewMatrix, paint,
                                    o.irLocal = "hw", FALSE)
                                 EXCEPT !.local = localMatrix.kind])
            ELSE IF aa.cov /\ view_matrix_ok_for_aa_fill_rect(viewMatrix)
            THEN Submit(Use(st1, "ok"),
                        [Batch("AAFill", croppedRect, viewMatrix, paint, aa.hwaa, FALSE)
                            EXCEPT !.local = localMatrix.kind, !.isNull = ~o.ok,
                                   !.dev = MapRect(viewMatrix, croppedRect)])
            ELSE drawNonAAFilledRect(st1, clip, paint, viewMatrix, croppedRect,
                                     localMatrix, FALSE)
    IN  IF abandoned THEN st
        ELSE Frame(IF ~crop.ok THEN st ELSE flushIfNecessary(body, o),
                   "fillRectWithLocalMatrix", "")

\* crop_filled_rect with a local rect, were it to leave the local rect alone.
crop_filled_rect_local_KeepsLocal(clip, viewMatrix, rect, localRect) ==
    [ok |-> crop_filled_rect(clip, viewMatrix, rect).ok,
     rect |-> crop_filled_rect(clip, viewMatrix, rect).rect,
     localRect |-> localRect]

\* crop_filled_rect with a local rect: each side of the rect that the clip
\* bounds cut moves the same side of the local rect by the cut length times
\* localRect.width() / rect.width() (or the heights).  The division is
\* reached only for a rect that intersects the clip bounds, hence with a
\* positive width and height.
crop_filled_rect_local(clip, viewMatrix, rect, localRect) ==
    IF ~RectStaysRect(viewMatrix) THEN [ok |-> TRUE, rect |-> rect, localRect |-> localRect]
    ELSE IF ~Invertible(viewMatrix) THEN [ok |-> FALSE, rect |-> rect, localRect |-> localRect]
    ELSE LET clipBounds == InvMapRect(viewMatrix, ClipConservativeBounds(clip))
             dx(len) == (len * RectWidth(localRect)) \div RectWidth(rect)
             dy(len) == (len * RectHeight(localRect)) \div RectHeight(rect)
         IN  IF ~RectIntersects(rect, clipBounds)
             THEN [ok |-> FALSE, rect |-> rect, localRect |-> localRect]
             ELSE [ok |-> TRUE,
                   rect |-> RectMeet(rect, clipBounds),
                   localRect |->
                       Rect(IF clipBounds.l > rect.l
                            THEN localRect.l + dx(clipBounds.l - rect.l) ELSE localRect.l,
                            IF clipBounds.t > rect.t
                            THEN localRect.t + dy(clipBounds.t - rect.t) ELSE localRect.t,
                            IF clipBounds.r < rect.r
                            THEN localRect.r - dx(rect.r - clipBounds.r) ELSE localRect.r,
                            IF clipBounds.b < rect.b
                            THEN localRect.b - dy(rect.b - clipBounds.b) ELSE localRect.b)]

\* GrDrawContext::fillRectToRect.  With coverage AA and a null AA-fill batch
\* nothing is drawn.
fillRectToRect(st, clip, paint, viewMatrix, rectToDraw, localRect, o) ==
    LET crop == crop_filled_rect_local(clip, viewMatrix, rectToDraw, localRect)
        st1 == IF caps.instanced THEN Use(getDrawTarget(st), "ir") ELSE getDrawTarget(st)
        aa == should_apply_coverage_aa(paint)
        body ==
            IF InstancedBatch(o)
            THEN Submit(st1, [Batch("InstRect", crop.rect, viewMatrix, paint, o.ir = "hw", FALSE)
                                 EXCEPT !.local = "rect", !.localRect = crop.localRect])
            ELSE IF aa.cov /\ view_matrix_ok_for_aa_fill_rect(viewMatrix)
            THEN IF o.ok
                 THEN drawBatch(Use(st1, "ok"),
                                [Batch("AAFill", crop.rect, viewMatrix, paint, aa.hwaa, FALSE)
                                    EXCEPT !.local = "rect", !.localRect = crop.localRect])
                 ELSE Use(st1, "ok")
            ELSE drawNonAAFilledRect(st1, clip, paint, viewMatrix, crop.rect,
                                     [kind |-> "rect", rect |-> crop.localRect], FALSE)
    IN  IF abandoned THEN st
        ELSE IF ~crop.ok THEN st
        ELSE flushIfNecessary(body, o)

\* GrDrawContext::drawVertices.  bounds is what SkRect::setBoundsCheck makes of
\* the positions (null: it fails); hairPrim says that the primitive type is
\* lines or points.  The checkpoint guard is set up before the bounds are
\* looked at.
drawVertices(st, clip, paint, viewMatrix, hairPrim, bounds, o) ==
    LET mapped == MapRect(viewMatrix, bounds.rect)
        outset == IF ~paint.aa \/ hairPrim THEN RectOutset(mapped, 1, 1) ELSE mapped
        body ==
            IF bounds.isNull THEN st
            ELSE Submit(st, Batch("Vertices", outset, viewMatrix, paint, mustUseHWAA(paint),
                                  FALSE))
    IN  IF abandoned THEN st
        ELSE flushIfNecessary(body, o)

\* The return of drawFilledDRRect, recorded.
RetFilledDRRect(st, v) ==
    Emit(Ret(st, v), Event("filledDRRect", 0, NoCmd, v = "true", 0, FALSE))

\* A GrRRectEffect: its edge type and the (device-space) round rect.
RRectEffect(edgeType, rr) == [edge |-> edgeType, rect |-> rr.rect, rad |-> rr.rad]
\* SkRRect::transform(viewMatrix, &dst), where it succeeds.
RRectTransform(m, rr) == RRect(MapRect(m, rr.rect), rr.rad)
\* The matrix viewMatrix.invert() yields.
InverseOf(m) == IF IsIdentity(m) THEN "I" ELSE "inverse"

\* drawFilledDRRect, were the outer effect added before the inner one.
drawFilledDRRect_OuterFirst(st, clip, paintIn, viewMatrix, origOuter, origInner, o) ==
    LET st1 == IF caps.instanced THEN Use(getDrawTarget(st), "ir") ELSE getDrawTarget(st)
        applyAA == paintIn.aa /\ ~caps.msaa
        inner == RRectTransform(viewMatrix, origInner)
        outer == RRectTransform(viewMatrix, origOuter)
        grPaint == [paintIn EXCEPT
                       !.aa = FALSE,
                       !.cov = @ \o <<RRectEffect(IF applyAA THEN "fillAA" ELSE "fillBW", outer),
                                      RRectEffect(IF applyAA THEN "inverseFillAA"
                                                  ELSE "inverseFillBW", inner)>>]
        bounds == IF applyAA THEN RectOutset(outer.rect, 1, 1) ELSE outer.rect
    IN  IF InstancedBatch(o)
        THEN RetFilledDRRect(
                 Submit(st1, [Batch("InstDRRect", origOuter.rect, viewMatrix, paintIn,
                                    o.ir = "hw", FALSE)
                                 EXCEPT !.rad = origOuter.rad, !.inner = origInner.rect]),
                 "true")
        ELSE IF ~IsIdentity(viewMatrix)
                /\ (~RRectTransforms(viewMatrix) \/ ~Invertible(viewMatrix))
        THEN RetFilledDRRect(st1, "false")
        ELSE IF ~o.ok THEN RetFilledDRRect(Use(st1, "ok"), "false")
        ELSE RetFilledDRRect(
                 fillRectWithLocalMatrix(Use(st1, "ok"), clip, grPaint, "I", bounds,
                                         LocalMatrix(InverseOf(viewMatrix)), o),
                 "true")

\* GrDrawContext::drawFilledDRRect.  o.ok: both GrRRectEffect::Make calls
\* yield an effect.
drawFilledDRRect(st, clip, paintIn, viewMatrix, origOuter, origInner, o) ==
    LET \* this->getDrawTarget()->instancedRendering()
        st1 == IF caps.instanced THEN Use(getDrawTarget(st), "ir") ELSE getDrawTarget(st)
        applyAA == paintIn.aa /\ ~caps.msaa
        inner == RRectTransform(viewMatrix, origInner)
        outer == RRectTransform(viewMatrix, origOuter)
        grPaint == [paintIn EXCEPT
                       !.aa = FALSE,
                       !.cov = @ \o <<RRectEffect(IF applyAA THEN "inverseFillAA"
                                                  ELSE "inverseFillBW", inner),
                                      RRectEffect(IF applyAA THEN "fillAA" ELSE "fillBW", outer)>>]
        \* outer->getBounds(), outset by SK_ScalarHalf
        bounds == IF applyAA THEN RectOutset(outer.rect, 1, 1) ELSE outer.rect
    IN  IF InstancedBatch(o)
        THEN RetFilledDRRect(
                 Submit(st1, [Batch("InstDRRect", origOuter.rect, viewMatrix, paintIn,
                                    o.ir = "hw", FALSE)
                                 EXCEPT !.rad = origOuter.rad, !.inner = origInner.rect]),
                 "true")
        ELSE IF ~IsIdentity(viewMatrix)
                /\ (~RRectTransforms(viewMatrix) \/ ~Invertible(viewMatrix))
        THEN RetFilledDRRect(st1, "false")
        ELSE IF ~o.ok THEN RetFilledDRRect(Use(st1, "ok"), "false")
        ELSE RetFilledDRRect(
                 fillRectWithLocalMatrix(Use(st1, "ok"), clip, grPaint, "I", bounds,
                                         LocalMatrix(InverseOf(viewMatrix)), o),
                 "true")

\* GrDrawContext::drawDRRect.  That neither round rect is empty is asserted
\* (SkASSERT) and not tested: a build without assertions goes on.
drawDRRect(st, clip, paint, viewMatrix, outer, inner, o) ==
    LET filled == drawFilledDRRect(st, clip, paint, viewMatrix, outer, inner, o)
        body == IF filled.ret = "true" THEN Ret(filled, "void")
                ELSE internalDrawPath(Ret(filled, "void"), clip, paint, viewMatrix,
                                      PathOfDRRect(outer, inner), SimpleFill, o)
    IN  IF abandoned THEN st ELSE Frame(flushIfNecessary(body, o), "drawDRRect", "")

\* fills_as_nested_rects, were the margins not looked at.
fills_as_nested_rects_AnyMargin(viewMatrix, path) ==
    /\ ~path.inverse
    /\ RectStaysRect(viewMatrix)
    /\ PathIsNestedFillRects(path)
    /\ ~(~path.evenOdd /\ path.sameDir)

\* fills_as_nested_rects: SK_Scalar1 is 2 half pixels.
fills_as_nested_rects(viewMatrix, path) ==
    LET margin == <<Abs(path.rect.l - path.inner.l), Abs(path.rect.t - path.inner.t),
                    Abs(path.rect.r - path.inner.r), Abs(path.rect.b - path.inner.b)>>
        allEq == \A i \in 2..4 : margin[i] = margin[1]
        allGoE1 == \A i \in 1..4 : margin[i] >= 2
    IN  /\ ~path.inverse
        /\ RectStaysRect(viewMatrix)
        /\ PathIsNestedFillRects(path)
        /\ ~(~path.evenOdd /\ path.sameDir)
        /\ allEq \/ allGoE1

\* The oval test of drawPath, were the fill type not looked at.
DrawsAsOval_AnyFill(path) == PathIsOval(path)

\* GrDrawContext::drawPath: isOval && !path.isInverseFillType()
DrawsAsOval(path) == PathIsOval(path) /\ ~path.inverse

\* drawPath, were an empty path painted whatever its fill type.
drawPath_EmptyPaints(st, clip, paint, viewMatrix, path, style, o) ==
    LET aa == should_apply_coverage_aa(paint)
        special == aa.cov /\ ~style.pathEffect
        nested == /\ special /\ IsSimpleFill(style) /\ ~PathIsConvex(path)
                  /\ fills_as_nested_rects(viewMatrix, path)
        oval == special /\ ~nested /\ DrawsAsOval(path)
        st1 == IF nested \/ oval THEN Use(st, "ok") ELSE st
        body ==
            IF nested
            THEN IF o.ok
                 THEN Submit(st1, [Batch("AANestedRects", path.rect, viewMatrix, paint,
                                         aa.hwaa, FALSE)
                                      EXCEPT !.inner = path.inner])
                 ELSE st1
            ELSE IF oval /\ o.ok
            THEN Submit(st1, Batch("Oval", path.rect, viewMatrix, paint, aa.hwaa, FALSE))
            ELSE internalDrawPath(st1, clip, paint, viewMatrix, path, style, o)
    IN  IF abandoned THEN st
        ELSE IF PathIsEmpty(path) THEN drawPaint(st, clip, paint, viewMatrix, o)
        ELSE flushIfNecessary(body, o)

\* GrDrawContext::drawPath.  o.ok: the batch factory asked
\* (CreateAAFillNestedRects or CreateOvalBatch) yields a batch.
drawPath(st, clip, paint, viewMatrix, path, style, o) ==
    LET aa == should_apply_coverage_aa(paint)
        special == aa.cov /\ ~style.pathEffect
        nested == /\ special /\ IsSimpleFill(style) /\ ~PathIsConvex(path)
                  /\ fills_as_nested_rects(viewMatrix, path)
        oval == special /\ ~nested /\ DrawsAsOval(path)
        st1 == IF nested \/ oval THEN Use(st, "ok") ELSE st
        body ==
            IF nested
            THEN IF o.ok
                 THEN Submit(st1, [Batch("AANestedRects", path.rect, viewMatrix, paint,
                                         aa.hwaa, FALSE)
                                      EXCEPT !.inner = path.inner])
                 ELSE st1
            ELSE IF oval /\ o.ok
            THEN Submit(st1, Batch("Oval", path.rect, viewMatrix, paint, aa.hwaa, FALSE))
            ELSE internalDrawPath(st1, clip, paint, viewMatrix, path, style, o)
    IN  IF abandoned THEN st
        ELSE Frame(IF PathIsEmpty(path)
                   THEN IF path.inverse THEN drawPaint(st, clip, paint, viewMatrix, o) ELSE st
                   ELSE flushIfNecessary(body, o),
                   "drawPath", style.kind)

-----------------------------------------------------------------------------
(* The inputs the calls are made with.  The specifications share the       *)
(* actions: Spec makes sequences of calls, each with few inputs (wide is   *)
(* FALSE); SpecCall and SpecShape make a single call, with many inputs     *)
(* (wide is TRUE): SpecCall of the rect, clear and stencil entry points,   *)
(* SpecShape of the oval, double round rect, path, rect-to-rect and        *)
(* vertices entry points.                                                  *)

Colors == {1, 2}

FullRect == RtRect
BigRect == RectOutset(RtRect, 2, 2)
PartRect == Rect(0, 0, 2, 2)
OutRect == Rect(2 * RTW + 2, 0, 2 * RTW + 4, 2)
LineRect == Rect(0, 2, 2 * RTW, 2)
ColRect == Rect(2, 0, 2, 2 * RTH)
DotRect == Rect(2, 2, 2, 2)

Clips == {NoClip, ClipTo(PartRect)}
Paints == {Paint(aa, 1, "srcOver", cb) : aa \in BOOLEAN, cb \in BOOLEAN}
StrokeStyles == {Style("stroke", "miter", 2, FALSE), Style("stroke", "round", 2, FALSE),
                 Style("stroke", "bevel", 2, FALSE), Style("hairline", "miter", 0, FALSE)}

EmptyPath(inverse) == Path("empty", NoRect, 0, inverse, FALSE, FALSE)

\* The arguments of a call, one record shape for every entry point: path is
\* the path of the path entry points, inner the inner round rect of drawDRRect.
Args(rect, color, flag, clip, paint, vm, style, ss) ==
    [rect |-> rect, color |-> color, flag |-> flag, clip |-> clip, paint |-> paint,
     vm |-> vm, style |-> style, ss |-> ss, path |-> EmptyPath(FALSE),
     inner |-> EmptyRRect]
NoArgs == Args(NullRect, 0, FALSE, NoClip, Paint(FALSE, 0, "none", FALSE), "I", SimpleFill, FALSE)

IrOutcomes == IF caps.instanced THEN {"null", "cov", "hw"} ELSE {"null"}
PrOutcomes == {"none", "t1", "t2", "t3", "t3sw"}
Oracles(wide) ==
    IF wide
    THEN [flushAt : SUBSET (1..MaxChk), ir : IrOutcomes, irLocal : {"null"}, ok : BOOLEAN,
          pr : PrOutcomes]
    ELSE [flushAt : SUBSET (1..MaxChk), ir : IrOutcomes \ {"hw"}, irLocal : {"null"},
          ok : {TRUE}, pr : {"none", "t1"}]
\* The answers asked for by the oval, double round rect and path entry
\* points: irs and irLocals are the answers of the instanced renderer, for
\* the entry points that ask it.
NoIr == {"null"}
ShapeOracles(wide, irs, irLocals) ==
    IF wide
    THEN [flushAt : {{}, {1}}, ir : irs, irLocal : irLocals, ok : BOOLEAN, pr : PrOutcomes]
    ELSE [flushAt : {{}, {1}}, ir : NoIr, irLocal : NoIr, ok : {TRUE}, pr : {"none", "t1"}]
NoOracle == [flushAt |-> {}, ir |-> "null", irLocal |-> "null", ok |-> TRUE, pr |-> "none"]

\* An oracle is told apart from another only by the answers the call asked for.
Canonical(st, o) ==
    /\ o.flushAt \subseteq 1..st.chk
    /\ "ir" \notin st.used => o.ir = "null"
    /\ "irLocal" \notin st.used => o.irLocal = "null"
    /\ "ok" \notin st.used => o.ok
    /\ o.pr = "t1" => "pr1" \in st.used
    /\ o.pr = "t2" => "pr2" \in st.used
    /\ o.pr \in {"t3", "t3sw"} => "pr3" \in st.used

NoCall == [op |-> "none", ctx |-> 0, ab |-> FALSE, args |-> NoArgs, o |-> NoOracle,
           trace |-> <<>>, ret |-> "void", frames |-> <<>>]

-----------------------------------------------------------------------------
(* The state machine                                                       *)

Init ==
    /\ caps \in [fullClearIsFree : BOOLEAN, useDrawInsteadOfClear : BOOLEAN,
                 instanced : BOOLEAN, msaa : BOOLEAN]
    /\ abandoned = FALSE
    /\ dts = <<>>
    /\ rtLast = 0
    /\ alive = [c \in Ctxs |-> c = 1]
    /\ handle = [c \in Ctxs |-> 0]
    /\ serial = 0
    /\ calls = 0
    /\ last = NoCall

Idle == last.op = "none"
\* The single call of SpecCall is made on the first draw context.
CanCall(c, wide) ==
    /\ Idle
    /\ alive[c]
    /\ IF wide THEN calls = 0 /\ c = 1 ELSE calls < MaxCalls

\* The end of an entry-point call of draw context c that ran to state st.
Finish(c, op, args, o, st) ==
    /\ Canonical(st, o)
    /\ dts' = st.dts
    /\ rtLast' = st.rtLast
    /\ handle' = [handle EXCEPT ![c] = st.h]
    /\ serial' = st.serial
    /\ calls' = calls + 1
    /\ last' = [op |-> op, ctx |-> c, ab |-> abandoned, args |-> args, o |-> o,
                trace |-> st.trace, ret |-> st.ret, frames |-> st.frames]
    /\ UNCHANGED <<caps, abandoned, alive>>

ClearArgs(wide) ==
    IF wide
    THEN {[NoArgs EXCEPT !.rect = rect, !.color = color, !.flag = canIgnoreRect] :
            rect \in {NullRect, SomeRect(FullRect), SomeRect(BigRect), SomeRect(PartRect),
                      SomeRect(OutRect)},
            color \in Colors, canIgnoreRect \in BOOLEAN}
    ELSE {[NoArgs EXCEPT !.rect = rect, !.color = 1] : rect \in {NullRect, SomeRect(PartRect)}}

Clear(c, wide) ==
    /\ CanCall(c, wide)
    /\ \E a \in ClearArgs(wide), o \in Oracles(wide) :
          Finish(c, "clear", a, o, clear(Start(c), a.rect, a.color, a.flag, o))

Discard(c, wide) ==
    /\ CanCall(c, wide)
    /\ \E o \in Oracles(wide) : Finish(c, "discard", NoArgs, o, discard(Start(c), o))

CopySurface(c, wide) ==
    /\ CanCall(c, wide)
    /\ \E o \in Oracles(wide) : Finish(c, "copySurface", NoArgs, o, copySurface(Start(c), o))

DrawBatch(c, wide) ==
    /\ CanCall(c, wide)
    /\ \E o \in Oracles(wide), color \in (IF wide THEN Colors ELSE {1}) :
          Finish(c, "drawBatch", [NoArgs EXCEPT !.color = color], o,
                 drawBatch(Start(c), TargetCmd("Batch", PartRect, color)))

DrawPaintArgs(wide) ==
    IF wide
    THEN {[NoArgs EXCEPT !.clip = clip, !.paint = paint, !.vm = vm] :
            clip \in Clips, paint \in Paints, vm \in Matrices}
    ELSE {[NoArgs EXCEPT !.paint = Paint(TRUE, 1, "srcOver", FALSE), !.vm = vm] :
            vm \in {"I", "Persp"}}

DrawPaint(c, wide) ==
    /\ CanCall(c, wide)
    /\ \E a \in DrawPaintArgs(wide), o \in Oracles(wide) :
          Finish(c, "drawPaint", a, o, drawPaint(Start(c), a.clip, a.paint, a.vm, o))

DrawRectArgs(wide) ==
    IF wide
    THEN {[NoArgs EXCEPT !.rect = SomeRect(r), !.clip = clip, !.paint = paint, !.vm = vm] :
            r \in {FullRect, BigRect, PartRect, OutRect}, clip \in Clips, paint \in Paints,
            vm \in Matrices}
         \cup
         {[NoArgs EXCEPT !.rect = SomeRect(r), !.paint = paint, !.vm = vm, !.style = style] :
            r \in {PartRect, LineRect, ColRect, DotRect}, paint \in Paints,
            vm \in {"I", "R45"}, style \in StrokeStyles}
    ELSE {[NoArgs EXCEPT !.rect = SomeRect(PartRect), !.paint = Paint(aa, 1, "srcOver", FALSE)] :
            aa \in BOOLEAN}
         \cup
         {[NoArgs EXCEPT !.rect = SomeRect(FullRect), !.paint = Paint(FALSE, 1, "srcOver", TRUE)]}

DrawRect(c, wide) ==
    /\ CanCall(c, wide)
    /\ \E a \in DrawRectArgs(wide), o \in Oracles(wide) :
          Finish(c, "drawRect", a, o,
                 drawRect(Start(c), a.clip, a.paint, a.vm, a.rect.rect, a.style, o))

DrawRRectArgs(wide) ==
    IF wide
    THEN {[NoArgs EXCEPT !.rect = SomeRect(r), !.paint = paint, !.vm = vm, !.style = style] :
            r \in {PartRect, LineRect}, paint \in Paints, vm \in {"I", "Skew"},
            style \in {SimpleFill, Style("stroke", "miter", 2, FALSE)}}
    ELSE {[NoArgs EXCEPT !.rect = SomeRect(PartRect), !.paint = Paint(TRUE, 1, "srcOver", FALSE)]}

DrawRRect(c, wide) ==
    /\ CanCall(c, wide)
    /\ \E a \in DrawRRectArgs(wide), o \in Oracles(wide) :
          Finish(c, "drawRRect", a, o,
                 drawRRect(Start(c), a.clip, a.paint, a.vm, RRect(a.rect.rect, 1), a.style, o))

ClearStencilClip(c, wide) ==
    /\ CanCall(c, wide)
    /\ \E o \in Oracles(wide) :
          Finish(c, "clearStencilClip", [NoArgs EXCEPT !.rect = SomeRect(PartRect)], o,
                 clearStencilClip(Start(c), PartRect, o))

StencilPath(c, wide) ==
    /\ CanCall(c, wide)
    /\ \E useHWAA \in (IF wide THEN BOOLEAN ELSE {FALSE}), o \in Oracles(wide) :
          Finish(c, "stencilPath",
                 [NoArgs EXCEPT !.rect = SomeRect(PartRect), !.flag = useHWAA, !.ss = TRUE], o,
                 stencilPath(Start(c), NoClip, TRUE, useHWAA, "I", PathOfRect(PartRect)))

StencilRectArgs(wide) ==
    IF wide
    THEN {[NoArgs EXCEPT !.rect = SomeRect(r), !.flag = aa, !.vm = vm, !.ss = TRUE] :
            r \in {PartRect, OutRect}, aa \in BOOLEAN, vm \in {"I", "Skew"}}
    ELSE {[NoArgs EXCEPT !.rect = SomeRect(PartRect), !.ss = TRUE]}

StencilRect(c, wide) ==
    /\ CanCall(c, wide)
    /\ \E a \in StencilRectArgs(wide), o \in Oracles(wide) :
          Finish(c, "stencilRect", a, o,
                 stencilRect(Start(c), a.clip, a.ss, a.flag, a.vm, a.rect.rect, o))

DrawAndStencilRect(c, wide) ==
    /\ CanCall(c, wide)
    /\ \E a \in StencilRectArgs(wide), o \in Oracles(wide) :
          Finish(c, "drawAndStencilRect", a, o,
                 drawAndStencilRect(Start(c), a.clip, a.ss, a.flag, a.vm, a.rect.rect, o))

StencilPaths(wide) ==
    IF wide
    THEN {PathOfRect(PartRect), Path("empty", NoRect, 0, TRUE, FALSE, FALSE),
          Path("empty", NoRect, 0, FALSE, FALSE, FALSE)}
    ELSE {PathOfRect(PartRect)}

\* The path is recorded in the call's arguments by its bounds, its geometry
\* (in style.kind) and its fill inversion (in style.pathEffect).
DrawAndStencilPath(c, wide) ==
    /\ CanCall(c, wide)
    /\ \E path \in StencilPaths(wide), doAA \in (IF wide THEN BOOLEAN ELSE {FALSE}),
          o \in Oracles(wide) :
          Finish(c, "drawAndStencilPath",
                 [NoArgs EXCEPT !.rect = SomeRect(path.rect), !.flag = doAA, !.ss = TRUE,
                                !.style = Style(path.geom, "miter", 0, path.inverse),
                                !.path = path],
                 o, drawAndStencilPath(Start(c), NoClip, TRUE, doAA, "I", path, o))

AAPaints == {Paint(aa, 1, "srcOver", FALSE) : aa \in BOOLEAN}

DrawOvalArgs(wide) ==
    IF wide
    THEN {[NoArgs EXCEPT !.rect = SomeRect(r), !.paint = paint, !.vm = vm, !.style = style] :
            r \in {PartRect, LineRect}, paint \in AAPaints, vm \in {"I", "Skew"},
            style \in {SimpleFill, Style("stroke", "miter", 2, FALSE)}}
    ELSE {[NoArgs EXCEPT !.rect = SomeRect(PartRect), !.paint = Paint(TRUE, 1, "srcOver", FALSE)]}

DrawOval(c, wide) ==
    /\ CanCall(c, wide)
    /\ \E a \in DrawOvalArgs(wide), o \in ShapeOracles(wide, IrOutcomes, NoIr) :
          Finish(c, "drawOval", a, o,
                 drawOval(Start(c), a.clip, a.paint, a.vm, a.rect.rect, a.style, o))

\* An outer round rect over the whole target and an inner one inside it.
OuterRRect == RRect(FullRect, 1)
InnerRRect == RRect(Rect(1, 1, 2 * RTW - 1, 2 * RTH - 1), 1)

DrawDRRectArgs(wide) ==
    IF wide
    THEN {[NoArgs EXCEPT !.rect = SomeRect(outer.rect), !.color = outer.rad, !.inner = inner,
                         !.clip = clip, !.paint = paint, !.vm = vm] :
            outer \in {OuterRRect, EmptyRRect}, inner \in {InnerRRect, EmptyRRect},
            clip \in Clips, paint \in AAPaints, vm \in {"I", "T", "R45", "Tiny"}}
    ELSE {[NoArgs EXCEPT !.rect = SomeRect(OuterRRect.rect), !.color = OuterRRect.rad,
                         !.inner = InnerRRect, !.paint = Paint(TRUE, 1, "srcOver", FALSE)]}

\* The outer round rect is recorded by its rect (in rect) and radius (in color).
DrawDRRect(c, wide) ==
    /\ CanCall(c, wide)
    /\ \E a \in DrawDRRectArgs(wide), o \in ShapeOracles(wide, IrOutcomes, IrOutcomes) :
          Finish(c, "drawDRRect", a, o,
                 drawDRRect(Start(c), a.clip, a.paint, a.vm, RRect(a.rect.rect, a.color),
                            a.inner, o))

FillRectWithLocalMatrixArgs(wide) ==
    IF wide
    THEN {[NoArgs EXCEPT !.rect = SomeRect(r), !.clip = clip, !.paint = paint, !.vm = vm] :
            r \in {PartRect, OutRect}, clip \in Clips, paint \in AAPaints,
            vm \in {"I", "Skew", "Tiny"}}
    ELSE {[NoArgs EXCEPT !.rect = SomeRect(PartRect), !.paint = Paint(FALSE, 1, "srcOver", FALSE)]}

FillRectWithLocalMatrix(c, wide) ==
    /\ CanCall(c, wide)
    /\ \E a \in FillRectWithLocalMatrixArgs(wide), o \in ShapeOracles(wide, NoIr, IrOutcomes) :
          Finish(c, "fillRectWithLocalMatrix", a, o,
                 fillRectWithLocalMatrix(Start(c), a.clip, a.paint, a.vm, a.rect.rect,
                                         LocalMatrix("T"), o))

\* The local rect is k times the size of the rect, which keeps the quotients
\* of crop_filled_rect exact; it is recorded in inner.
FillRectToRectArgs ==
    {[NoArgs EXCEPT !.rect = SomeRect(r), !.clip = clip, !.paint = paint, !.vm = vm,
                    !.inner = RRect(Rect(0, 0, k * RectWidth(r), k * RectHeight(r)), 0)] :
        r \in {PartRect, BigRect, OutRect, LineRect}, clip \in Clips, paint \in AAPaints,
        vm \in {"I", "T", "Skew", "Tiny"}, k \in {1, 2}}

FillRectToRect(c) ==
    /\ CanCall(c, TRUE)
    /\ \E a \in FillRectToRectArgs, o \in ShapeOracles(TRUE, IrOutcomes, NoIr) :
          Finish(c, "fillRectToRect", a, o,
                 fillRectToRect(Start(c), a.clip, a.paint, a.vm, a.rect.rect, a.inner.rect, o))

\* The bounds of the positions are recorded in rect, the primitive type in flag.
DrawVertices(c) ==
    /\ CanCall(c, TRUE)
    /\ \E bounds \in {NullRect, SomeRect(PartRect)}, paint \in AAPaints, vm \in {"I", "T"},
          hairPrim \in BOOLEAN, o \in ShapeOracles(TRUE, NoIr, NoIr) :
          Finish(c, "drawVertices",
                 [NoArgs EXCEPT !.rect = bounds, !.paint = paint, !.vm = vm, !.flag = hairPrim],
                 o, drawVertices(Start(c), NoClip, paint, vm, hairPrim, bounds, o))

\* Nested rect contours: the outer one, and inner ones whose margins are one
\* pixel all around, half a pixel all around, half a pixel on the left and
\* one pixel elsewhere, and two pixels on the right and one elsewhere.
NestedOuter == BigRect
NestedInners ==
    {RectOutset(BigRect, -2, -2), RectOutset(BigRect, -1, -1),
     Rect(BigRect.l + 1, BigRect.t + 2, BigRect.r - 2, BigRect.b - 2),
     Rect(BigRect.l + 2, BigRect.t + 2, BigRect.r - 4, BigRect.b - 2)}

\* A path that is neither convex, nor an oval, nor two nested rects.
ConcavePath(peEmpty, strokeEmpty) == Path("concave", PartRect, 0, FALSE, peEmpty, strokeEmpty)

PathStyles ==
    {SimpleFill, Style("stroke", "miter", 2, FALSE), Style("hairline", "miter", 0, FALSE),
     Style("strokeAndFill", "miter", 2, FALSE), Style("fill", "miter", 0, TRUE),
     Style("stroke", "miter", 2, TRUE)}

DrawPathArgs(wide) ==
    IF wide
    THEN {[NoArgs EXCEPT !.path = EmptyPath(inverse), !.clip = clip, !.paint = paint,
                         !.vm = vm] :
            inverse \in BOOLEAN, clip \in Clips, paint \in Paints,
            vm \in {"I", "Persp", "Sing"}}
         \cup
         {[NoArgs EXCEPT !.path = NestedRects(NestedOuter, inner, sameDir, evenOdd, FALSE),
                         !.paint = paint, !.vm = vm, !.style = style] :
            inner \in NestedInners, sameDir \in BOOLEAN, evenOdd \in BOOLEAN,
            paint \in AAPaints, vm \in {"I", "R45"},
            style \in {SimpleFill, Style("stroke", "miter", 2, FALSE),
                       Style("fill", "miter", 0, TRUE)}}
         \cup
         {[NoArgs EXCEPT !.path = NestedRects(NestedOuter, RectOutset(BigRect, -2, -2),
                                              FALSE, FALSE, TRUE),
                         !.paint = paint] : paint \in AAPaints}
         \cup
         {[NoArgs EXCEPT !.path = [PathOfOval(PartRect) EXCEPT !.inverse = inverse,
                                                               !.evenOdd = evenOdd],
                         !.paint = paint, !.style = style] :
            inverse \in BOOLEAN, evenOdd \in BOOLEAN, paint \in AAPaints,
            style \in PathStyles}
         \cup
         {[NoArgs EXCEPT !.path = path, !.paint = paint, !.style = style] :
            path \in {ConcavePath(pe, se) : pe \in BOOLEAN, se \in BOOLEAN}
                     \cup {PathOfRect(PartRect)},
            paint \in AAPaints, style \in PathStyles}
    ELSE {[NoArgs EXCEPT !.path = path, !.paint = Paint(TRUE, 1, "srcOver", FALSE)] :
            path \in {ConcavePath(FALSE, FALSE), EmptyPath(TRUE)}}

\* Only an empty path, which is painted by drawPaint, can come to ask the
\* instanced renderer.
DrawPath(c, wide) ==
    /\ CanCall(c, wide)
    /\ \E a \in DrawPathArgs(wide) :
          \E o \in ShapeOracles(wide, IF PathIsEmpty(a.path) THEN IrOutcomes ELSE NoIr, NoIr) :
             Finish(c, "drawPath", a, o,
                    drawPath(Start(c), a.clip, a.paint, a.vm, a.path, a.style, o))

\* The call has returned; its record is dropped.
Return ==
    /\ ~Idle
    /\ last' = NoCall
    /\ UNCHANGED <<caps, abandoned, dts, rtLast, alive, handle, serial, calls>>

\* GrContext::flush from outside any draw call.
Flush ==
    /\ Idle
    /\ \E i \in 1..Len(dts) : ~dts[i].closed
    /\ dts' = CloseAll(dts)
    /\ UNCHANGED <<caps, abandoned, rtLast, alive, handle, serial, calls, last>>

\* GrContext::abandonContext
Abandon ==
    /\ Idle
    /\ ~abandoned
    /\ abandoned' = TRUE
    /\ UNCHANGED <<caps, dts, rtLast, alive, handle, serial, calls, last>>

\* GrDrawContext::GrDrawContext: another draw context on the same render
\* target takes a reference on the render target's last draw target.
Construct(c) ==
    /\ Idle
    /\ ~alive[c]
    /\ alive' = [alive EXCEPT ![c] = TRUE]
    /\ handle' = [handle EXCEPT ![c] = rtLast]
    /\ dts' = IF rtLast = 0 THEN dts ELSE [dts EXCEPT ![rtLast].refs = @ + 1]
    /\ UNCHANGED <<caps, abandoned, rtLast, serial, calls, last>>

\* GrDrawContext::~GrDrawContext: the reference on the held draw target, if
\* any, is released.
Destroy(c) ==
    /\ Idle
    /\ alive[c]
    /\ alive' = [alive EXCEPT ![c] = FALSE]
    /\ handle' = [handle EXCEPT ![c] = 0]
    /\ dts' = IF handle[c] = 0 THEN dts ELSE [dts EXCEPT ![handle[c]].refs = @ - 1]
    /\ UNCHANGED <<caps, abandoned, rtLast, serial, calls, last>>

Calls(wide) ==
    \E c \in Ctxs :
        \/ Clear(c, wide)
        \/ Discard(c, wide)
        \/ CopySurface(c, wide)
        \/ DrawBatch(c, wide)
        \/ DrawPaint(c, wide)
        \/ DrawRect(c, wide)
        \/ DrawRRect(c, wide)
        \/ ClearStencilClip(c, wide)
        \/ StencilPath(c, wide)
        \/ StencilRect(c, wide)
        \/ DrawAndStencilRect(c, wide)
        \/ DrawAndStencilPath(c, wide)

ShapeCalls(wide) ==
    \E c \in Ctxs :
        \/ DrawOval(c, wide)
        \/ DrawDRRect(c, wide)
        \/ FillRectWithLocalMatrix(c, wide)
        \/ DrawPath(c, wide)

Environment ==
    \/ Return
    \/ Flush
    \/ Abandon
    \/ \E c \in Ctxs : Construct(c)

\* Sequences of calls of every entry point.
Next == Calls(FALSE) \/ ShapeCalls(FALSE) \/ Environment
Spec == Init /\ [][Next]_vars

\* One call, with the wide inputs.
NextCall == Calls(TRUE) \/ Environment
SpecCall == Init /\ [][NextCall]_vars

\* One call of an entry point that draws an oval, a round rect, a double
\* round rect, a path, a rect with a local rect or matrix, or vertices, with
\* the wide inputs.
NextShape ==
    \/ ShapeCalls(TRUE)
    \/ \E c \in Ctxs : DrawRRect(c, TRUE) \/ DrawAndStencilPath(c, TRUE)
    \/ \E c \in Ctxs : FillRectToRect(c) \/ DrawVertices(c)
    \/ Environment
SpecShape == Init /\ [][NextShape]_vars

\* Draw contexts that come and go on one render target, between calls that
\* submit one command each.
NextLife ==
    \/ \E c \in Ctxs : DrawBatch(c, FALSE) \/ Discard(c, FALSE) \/ Destroy(c)
    \/ Environment
SpecLife == Init /\ [][NextLife]_vars

-----------------------------------------------------------------------------
(* What the last call did, read from its record                            *)

\* A call has been made on a context that was not abandoned.
Live == ~Idle /\ ~last.ab
\* The positions of the events of one kind in the last call's trace.
TraceIdx(e) == {k \in 1..Len(last.trace) : last.trace[k].e = e}
\* The submissions among the first n events of the last call, in order.
SubmitsUpTo(n) == SelectSeq(SubSeq(last.trace, 1, n), LAMBDA ev : ev.e = "submit")
Submits == SubmitsUpTo(Len(last.trace))
CmdsOf(evs) == [i \in 1..Len(evs) |-> evs[i].cmd]
\* The commands the last call handed to draw targets, in order.
Cmds == CmdsOf(Submits)

\* The state the single call of SpecCall starts on, and the commands
\* a handler submits when run to the state st.
Fresh ==
    [dts |-> <<>>, rtLast |-> 0, h |-> 0, serial |-> 0, trace |-> <<>>, chk |-> 0,
     used |-> {}, ret |-> "void", frames |-> <<>>]
CmdsFrom(st) == CmdsOf(SelectSeq(st.trace, LAMBDA ev : ev.e = "submit"))
\* The batches among them: everything but the discard command.
Batches == SelectSeq(Cmds, LAMBDA c : c.kind # "Discard")
FillKinds == {"NonAAFill", "InstRect"}

-----------------------------------------------------------------------------
(* C1 - C5: abandonment, ordering, the draw target handle, the checkpoint   *)

\* C1: once the context is abandoned, every entry point returns without
\* requesting a draw target and without submitting any command, and the
\* boolean-returning entries return false.
C1_AbandonedNoOp ==
    (~Idle /\ last.ab) =>
        /\ last.trace = <<>>
        /\ last.ret \in {"void", "false"}

\* C2: commands reach a draw target in the order the calls were made and,
\* within a call, in the order the code issues them: the serial numbers queued
\* on every target increase, each submission of a call is queued with the next
\* serial number, and clear under the draw-instead-of-clear workaround on the
\* whole target submits the discard and then the filled rect.
C2_SubmissionOrder ==
    /\ \A i \in 1..Len(dts) : \A j \in 1..(Len(dts[i].cmds) - 1) :
          dts[i].cmds[j] < dts[i].cmds[j + 1]
    /\ ~Idle =>
          \A k \in 1..Len(Submits) :
              /\ Submits[k].aux = serial - Len(Submits) + k
              /\ \E j \in 1..Len(dts[Submits[k].dt].cmds) :
                    dts[Submits[k].dt].cmds[j] = Submits[k].aux
    /\ (Live /\ last.op = "clear" /\ caps.useDrawInsteadOfClear /\ last.args.rect.isNull) =>
          /\ Len(Cmds) = 2
          /\ Cmds[1].kind = "Discard"
          /\ Cmds[2].kind \in FillKinds

\* A second call's clear, under the workaround, queued its discard and its
\* filled rect behind the first call's command on the same target.
C2_Witness ==
    /\ Live /\ last.op = "clear" /\ caps.useDrawInsteadOfClear
    /\ calls = 2
    /\ Len(Cmds) = 2
    /\ \E i \in 1..Len(dts) : Len(dts[i].cmds) = 3

\* C3: getDrawTarget requests a new draw target if and only if the held
\* handle is null or closed, and otherwise returns the held handle; every
\* command is submitted to the target getDrawTarget just returned, and that
\* target is open at the moment of submission.
C3_SubmitsToOpenTarget ==
    ~Idle =>
        \A k \in 1..Len(last.trace) :
            LET ev == last.trace[k] IN
            /\ ev.e = "getDT" =>
                  /\ ev.flag <=> (ev.aux = 0 \/ ev.flag2)
                  /\ ~ev.flag => ev.dt = ev.aux
                  /\ ev.dt # 0
            /\ ev.e = "submit" =>
                  /\ ev.flag
                  /\ k > 1
                  /\ last.trace[k - 1].e = "getDT"
                  /\ last.trace[k - 1].dt = ev.dt

\* A checkpoint inside the call flushed, the held target was found closed,
\* a new one was requested and the next command went to it.
C3_Witness ==
    /\ ~Idle
    /\ \E i, j, k \in 1..Len(last.trace) :
          /\ i < j /\ j < k
          /\ last.trace[i].e = "chk" /\ last.trace[i].flag
          /\ last.trace[j].e = "getDT" /\ last.trace[j].flag2 /\ last.trace[j].flag
          /\ last.trace[k].e = "submit" /\ last.trace[k].dt = last.trace[j].dt

\* C4: a draw context's draw target handle, if non-null and not closed, is
\* the render target's last draw target (what validate() asserts).
C4_Validate ==
    \A c \in Ctxs :
        (alive[c] /\ handle[c] # 0 /\ ~dts[handle[c]].closed) => rtLast = handle[c]

\* C5: a call on a live context passes the flush checkpoint at least once,
\* and passes it after the last command it submits.
C5_CheckpointAfterSubmit ==
    Live =>
        /\ TraceIdx("chk") # {}
        /\ \A s \in TraceIdx("submit") : \E k \in TraceIdx("chk") : k > s

-----------------------------------------------------------------------------
(* C6 - C8: clear, and the fill-style drawRect that degrades to clear       *)

ClearCall == Live /\ last.op = "clear"
\* The rect clear() is asked for replaces by the whole target.
ClearIsWhole ==
    \/ last.args.rect.isNull
    \/ RectContains(last.args.rect.rect, RtRect)
    \/ last.args.flag /\ caps.fullClearIsFree
ClearIsEmpty == ~ClearIsWhole /\ ~RectIntersects(last.args.rect.rect, RtRect)
ClearRect == IF ClearIsWhole THEN RtRect ELSE RectMeet(last.args.rect.rect, RtRect)
\* The rect selection and the single batch of the claim C6.
ClearSelectsRect ==
    IF ClearIsEmpty THEN Cmds = <<>>
    ELSE /\ Len(Batches) = 1
         /\ Batches[1].kind \in FillKinds \cup {"Clear"}
         /\ Batches[1].rect = ClearRect
         /\ Batches[1].color = last.args.color
\* The filled rect clear() draws in place of a clear batch.
IsClearDraw(cmd, rect, color) ==
    /\ cmd.kind \in FillKinds
    /\ cmd.rect = rect /\ cmd.vm = "I" /\ cmd.color = color /\ cmd.xp = "src"

\* C6 as stated: clear selects the whole target or the intersection, submits
\* nothing when that is empty and one batch otherwise, and a clear of a rect
\* covering the target with canIgnoreRect on a full-clear-is-free backend
\* submits one clear batch covering the whole target.
C6_Original ==
    ClearCall =>
        /\ ClearSelectsRect
        /\ (~last.args.rect.isNull /\ last.args.flag /\ caps.fullClearIsFree
                /\ RectContains(last.args.rect.rect, RtRect)) =>
              Cmds = <<TargetCmd("Clear", RtRect, last.args.color)>>

\* C6: clear selects the whole target or the intersection, submits nothing
\* when that is empty and one batch otherwise; a clear of a rect covering the
\* target with canIgnoreRect on a full-clear-is-free backend submits what a
\* clear of the null rect submits: one clear batch covering the whole target
\* or, on a backend that draws instead of clearing, a discard and one filled
\* rect covering the whole target.
C6_ClearRect ==
    ClearCall =>
        /\ ClearSelectsRect
        /\ (last.args.rect.isNull
              \/ (last.args.flag /\ caps.fullClearIsFree
                    /\ RectContains(last.args.rect.rect, RtRect))) =>
              IF caps.useDrawInsteadOfClear
              THEN /\ Len(Cmds) = 2
                   /\ Cmds[1] = TargetCmd("Discard", RtRect, 0)
                   /\ IsClearDraw(Cmds[2], RtRect, last.args.color)
              ELSE Cmds = <<TargetCmd("Clear", RtRect, last.args.color)>>

\* A partial rect with canIgnoreRect on a full-clear-is-free backend became
\* one clear batch of the whole target.
C6_Witness ==
    /\ ClearCall
    /\ last.args.rect = SomeRect(PartRect) /\ last.args.flag
    /\ caps.fullClearIsFree /\ ~caps.useDrawInsteadOfClear
    /\ Cmds = <<TargetCmd("Clear", RtRect, last.args.color)>>

\* C7 as stated: on a backend that draws instead of clearing, every clear
\* that is not a no-op discards the target and then draws a filled rect with
\* a source-replace blend, and adds no clear batch.
C7_Original ==
    (ClearCall /\ caps.useDrawInsteadOfClear /\ ~ClearIsEmpty) =>
        /\ Len(Cmds) = 2
        /\ Cmds[1] = TargetCmd("Discard", RtRect, 0)
        /\ IsClearDraw(Cmds[2], ClearRect, last.args.color)

\* C7: on a backend that draws instead of clearing, every clear that is not
\* a no-op draws one filled rect with a source-replace blend and adds no clear
\* batch; it discards the target first exactly when the clear covers the
\* whole target.
C7_DrawInsteadOfClear ==
    (ClearCall /\ caps.useDrawInsteadOfClear /\ ~ClearIsEmpty) =>
        /\ \A i \in 1..Len(Cmds) : Cmds[i].kind # "Clear"
        /\ Len(Batches) = 1
        /\ IsClearDraw(Batches[1], ClearRect, last.args.color)
        /\ IF ClearIsWhole
           THEN Len(Cmds) = 2 /\ Cmds[1] = TargetCmd("Discard", RtRect, 0)
           ELSE Len(Cmds) = 1

\* A partial clear on such a backend drew the rect and discarded nothing.
C7_Witness ==
    /\ ClearCall /\ caps.useDrawInsteadOfClear
    /\ last.args.rect = SomeRect(PartRect) /\ ~ClearIsWhole
    /\ Len(Cmds) = 1
    /\ IsClearDraw(Cmds[1], PartRect, last.args.color)

DrawRectFill == Live /\ last.op = "drawRect" /\ last.args.style.kind = "fill"
\* The clip contains the target, the target's corners mapped through the
\* inverse view matrix lie inclusively inside rect, the paint is a constant
\* blended color.
CoversTarget ==
    LET r == last.args.rect.rect
        q == InvMapRectToQuad(last.args.vm, RtRect)
    IN  /\ ClipQuickContains(last.args.clip, RtRect)
        /\ Invertible(last.args.vm)
        /\ \A i \in 1..4 : /\ r.l <= q[i].x /\ q[i].x <= r.r
                           /\ r.t <= q[i].y /\ q[i].y <= r.b
        /\ last.args.paint.constBlend

\* C8 as stated: under every capability configuration such a drawRect
\* submits exactly what clear(null, C, true) submits.
C8_Original ==
    (DrawRectFill /\ CoversTarget) =>
        IF caps.useDrawInsteadOfClear
        THEN /\ Len(Cmds) = 2
             /\ Cmds[1] = TargetCmd("Discard", RtRect, 0)
             /\ IsClearDraw(Cmds[2], RtRect, last.args.paint.color)
        ELSE Cmds = <<TargetCmd("Clear", RtRect, last.args.paint.color)>>

\* C8: on a backend that does not draw instead of clearing, such a drawRect
\* submits exactly what clear(null, C, true) submits: one clear batch of the
\* whole target with color C.
C8_DrawRectAsClear ==
    (DrawRectFill /\ CoversTarget /\ ~caps.useDrawInsteadOfClear) =>
        Cmds = <<TargetCmd("Clear", RtRect, last.args.paint.color)>>

\* The rect equal to the target bounds, under the identity: the corners lie
\* on the rect's edges and the draw became a clear.
C8_Witness ==
    /\ DrawRectFill /\ CoversTarget /\ ~caps.useDrawInsteadOfClear
    /\ last.args.rect = SomeRect(FullRect) /\ last.args.vm = "I"
    /\ Cmds = <<TargetCmd("Clear", RtRect, last.args.paint.color)>>

-----------------------------------------------------------------------------
(* C9 - C10: the filled-rect fast path                                      *)

\* The last call invoked drawFilledRect on its own arguments.
FilledRectCall ==
    /\ Live
    /\ \/ last.op = "drawRect" /\ last.args.style.kind = "fill"
       \/ last.op \in {"stencilRect", "drawAndStencilRect"}
    /\ TraceIdx("filled") # {}
FilledIdx == CHOOSE k \in TraceIdx("filled") : TRUE
FilledReturned == last.trace[FilledIdx].flag
\* What drawFilledRect was given, and what it submitted.
FilledPaint ==
    CASE last.op = "stencilRect" -> Paint(last.args.flag, 0, "disableColor", FALSE)
      [] last.op = "drawAndStencilRect" -> CoverageSetOpPaint(last.args.flag)
      [] OTHER -> last.args.paint
FilledCmds == CmdsOf(SubmitsUpTo(FilledIdx))
FilledCrop == crop_filled_rect(last.args.clip, last.args.vm, last.args.rect.rect)
\* Coverage AA applies: the paint is antialiased and the target is not
\* unified-multisampled.
FilledCoverageAA == FilledPaint.aa /\ ~caps.msaa
\* The draw target has an instanced renderer and recordRect returned a batch.
FilledInstanced == caps.instanced /\ last.o.ir # "null"
IsFilledBatch(cmd, kind, hwaa) ==
    /\ cmd.kind = kind
    /\ cmd.rect = FilledCrop.rect /\ cmd.vm = last.args.vm
    /\ cmd.color = FilledPaint.color /\ cmd.xp = FilledPaint.xp
    /\ cmd.hwaa = hwaa
    /\ cmd.ss = (last.op # "drawRect")
\* The cases (a) and (c) of the claim C9.
FilledInstancedOrNonAA ==
    /\ Len(FilledCmds) <= 1
    /\ FilledInstanced =>
          /\ Len(FilledCmds) = 1
          /\ IsFilledBatch(FilledCmds[1], "InstRect", last.o.ir = "hw")
    /\ (~FilledInstanced /\ ~FilledCoverageAA) =>
          /\ Len(FilledCmds) = 1
          /\ IsFilledBatch(FilledCmds[1], "NonAAFill", FilledPaint.aa /\ caps.msaa)
    /\ (~FilledInstanced /\ FilledCoverageAA /\ ~PreservesRightAngles(last.args.vm)) =>
          FilledCmds = <<>>

\* C9 as stated: of a rect that cropping keeps, drawFilledRect submits the
\* instanced batch if there is one; otherwise, if coverage AA applies and the
\* view matrix preserves right angles, an AA-fill batch; otherwise, if
\* coverage AA does not apply, a non-AA fill batch.
C9_Original ==
    (FilledRectCall /\ FilledCrop.ok) =>
        /\ FilledInstancedOrNonAA
        /\ (~FilledInstanced /\ FilledCoverageAA /\ PreservesRightAngles(last.args.vm)) =>
              /\ Len(FilledCmds) = 1
              /\ IsFilledBatch(FilledCmds[1], "AAFill", FALSE)

\* C9: of a rect that cropping keeps, drawFilledRect submits at most one
\* batch: the instanced batch, with the instanced renderer's useHWAA, if there
\* is one; otherwise, if coverage AA applies and the view matrix preserves
\* right angles, the AA-fill batch if the factory returns one and nothing if it
\* returns null; otherwise, if coverage AA does not apply, a non-AA fill
\* batch.  An absent instanced renderer and a null recordRect give the same.
C9_FilledRectPriority ==
    (FilledRectCall /\ FilledCrop.ok) =>
        /\ FilledInstancedOrNonAA
        /\ (~FilledInstanced /\ FilledCoverageAA /\ PreservesRightAngles(last.args.vm)) =>
              IF last.o.ok
              THEN /\ Len(FilledCmds) = 1
                   /\ IsFilledBatch(FilledCmds[1], "AAFill", FALSE)
                   /\ FilledCmds[1].dev = MapRect(last.args.vm, FilledCrop.rect)
              ELSE FilledCmds = <<>>

\* A non-AA fill of a rect inside the target, identity matrix, no clip, no
\* multisampling, no instanced renderer: one non-AA fill batch of that rect.
C9_Witness ==
    /\ FilledRectCall /\ last.op = "drawRect"
    /\ last.args.rect = SomeRect(PartRect) /\ last.args.vm = "I"
    /\ last.args.clip = NoClip /\ ~last.args.paint.aa
    /\ ~caps.msaa /\ ~caps.instanced
    /\ Len(Cmds) = 1
    /\ Cmds[1].kind = "NonAAFill" /\ Cmds[1].rect = PartRect

\* The caller's fallback: the next step after drawFilledRect returns is the
\* query for a path renderer.
FallsBackToPath ==
    /\ FilledIdx < Len(last.trace)
    /\ last.trace[FilledIdx + 1].e = "getPR"
    /\ last.trace[FilledIdx + 1].aux = 1

\* C10 as stated: drawFilledRect returns false only when coverage AA applies
\* and the view matrix does not preserve right angles, whatever the batch
\* factories return; when it returns false it has submitted nothing and
\* drawRect and drawAndStencilRect fall back to path drawing.
C10_Original ==
    (FilledRectCall /\ ~FilledReturned) =>
        /\ FilledCoverageAA /\ ~PreservesRightAngles(last.args.vm)
        /\ FilledCmds = <<>>
        /\ last.op \in {"drawRect", "drawAndStencilRect"} => FallsBackToPath

\* C10: drawFilledRect returns false exactly when cropping keeps the rect,
\* no instanced batch was recorded, coverage AA applies, and either the view
\* matrix does not preserve right angles or the AA-fill factory returns null;
\* when it returns false it has submitted nothing and drawRect and
\* drawAndStencilRect fall back to path drawing.
C10_FilledRectReturn ==
    FilledRectCall =>
        /\ ~FilledReturned <=>
              /\ FilledCrop.ok
              /\ ~FilledInstanced
              /\ FilledCoverageAA
              /\ ~PreservesRightAngles(last.args.vm) \/ ~last.o.ok
        /\ ~FilledReturned =>
              /\ FilledCmds = <<>>
              /\ last.op \in {"drawRect", "drawAndStencilRect"} => FallsBackToPath

\* An antialiased fill under a skewing view matrix returned false and the
\* rect was drawn as a path.
C10_Witness ==
    /\ FilledRectCall /\ ~FilledReturned
    /\ last.op = "drawRect"
    /\ ~PreservesRightAngles(last.args.vm)
    /\ \E k \in TraceIdx("prDraw") : k > FilledIdx



-----------------------------------------------------------------------------
(* C11 - C12: the stroke of a rect with no width or no height               *)

\* drawRect with a stroke (not hairline) style of a rect that has no width or
\* no height.
StrokeDegenerate ==
    /\ Live
    /\ last.op = "drawRect"
    /\ last.args.style.kind = "stroke"
    /\ RectWidth(last.args.rect.rect) = 0 \/ RectHeight(last.args.rect.rect) = 0

\* What a fill-style drawRect of rect rc, with the call's clip, paint and
\* matrix and the same collaborator answers, submits.
FillDrawRectCmds(rc) ==
    CmdsFrom(drawRect(Fresh, last.args.clip, last.args.paint, last.args.vm, rc,
                      SimpleFill, last.o))

\* C11 as stated: a stroke with miter joins and half-width r of a rect that
\* has no height submits what a fill-style drawRect of the rect outset by r on
\* the vertical axis only submits.
C11_Original ==
    (StrokeDegenerate /\ last.args.style.join = "miter"
        /\ RectHeight(last.args.rect.rect) = 0)
    => LET rect == last.args.rect.rect
           r == last.args.style.r
       IN  Cmds = FillDrawRectCmds(Rect(rect.l, rect.t - r, rect.r, rect.b + r))

\* C11, amended: a stroke with miter joins and half-width r of a rect that has
\* no height submits what a fill-style drawRect of the rect outset by r on all
\* four sides submits.
C11_MiterOutset ==
    (StrokeDegenerate /\ last.args.style.join = "miter"
        /\ RectHeight(last.args.rect.rect) = 0)
    => LET rect == last.args.rect.rect
           r == last.args.style.r
       IN  Cmds = FillDrawRectCmds(Rect(rect.l - r, rect.t - r, rect.r + r, rect.b + r))

\* A miter stroke of the zero-height rect submitted one batch, whose rect
\* extends past both ends of the line.
C11_Witness ==
    /\ StrokeDegenerate
    /\ last.args.style.join = "miter"
    /\ last.args.rect.rect = LineRect
    /\ Len(Cmds) = 1
    /\ Cmds[1].rect = RectOutset(LineRect, last.args.style.r, last.args.style.r)

\* C12: a stroke (not hairline) of a rect with no width or no height is drawn
\* as a fill chosen by the join: miter, the rect outset by r on all four sides;
\* round, when the rect has a width or a height, a round rect that is the rect
\* outset by r with radii r; bevel, the rect outset by r along its zero
\* dimension only (horizontally when the width is zero, otherwise
\* vertically); none of them submits a stroke batch.  A hairline of such a
\* rect is not turned into a fill.
C12_DegenerateStroke ==
    LET a == last.args
        rect == a.rect.rect
        r == a.style.r
        horiz == Rect(rect.l - r, rect.t, rect.r + r, rect.b)
        vert == Rect(rect.l, rect.t - r, rect.r, rect.b + r)
        roundCmds == CmdsFrom(drawRRect(Fresh, a.clip, a.paint, a.vm,
                                        RRect(RectOutset(rect, r, r), r), SimpleFill, last.o))
    IN  /\ StrokeDegenerate =>
            /\ a.style.join = "miter" => Cmds = FillDrawRectCmds(RectOutset(rect, r, r))
            /\ (a.style.join = "round" /\ (RectWidth(rect) # 0 \/ RectHeight(rect) # 0))
                   => Cmds = roundCmds
            /\ a.style.join = "bevel"
                   => Cmds = FillDrawRectCmds(IF RectWidth(rect) = 0 THEN horiz ELSE vert)
            /\ \A i \in 1..Len(Cmds) : Cmds[i].kind \notin {"AAStroke", "NonAAStroke"}
        /\ (Live /\ last.op = "drawRect" /\ a.style.kind = "hairline"
               /\ (RectWidth(rect) = 0 \/ RectHeight(rect) = 0))
            => \A i \in 1..Len(Cmds) :
                   /\ Cmds[i].kind \in {"AAStroke", "NonAAStroke", "Path", "SWPath"}
                   /\ Cmds[i].rect = rect

\* A bevel stroke of the zero-width rect submitted one batch, a fill of the
\* rect widened by r on each side and no taller.
C12_Witness ==
    /\ StrokeDegenerate
    /\ last.args.style.join = "bevel"
    /\ last.args.rect.rect = ColRect
    /\ Len(Cmds) = 1
    /\ Cmds[1].kind \in {"AAFill", "NonAAFill", "InstRect"}
    /\ RectWidth(Cmds[1].rect) = 2 * last.args.style.r
    /\ RectHeight(Cmds[1].rect) = RectHeight(ColRect)


-----------------------------------------------------------------------------
(* C13 - C15: ovals, round rects and double round rects                     *)

\* The call is drawOval, drawRRect or drawDRRect with an empty shape.
EmptyShapeCall ==
    /\ Live
    /\ \/ last.op \in {"drawOval", "drawRRect"} /\ RectIsEmpty(last.args.rect.rect)
       \/ last.op = "drawDRRect"
            /\ (RectIsEmpty(last.args.rect.rect) \/ RRectIsEmpty(last.args.inner))

\* C13: drawOval with an empty oval, drawRRect with an empty round rect and
\* drawDRRect with an empty outer or inner round rect submit nothing, query no
\* path renderer and do not touch the draw target.
C13_Original ==
    EmptyShapeCall =>
        /\ Submits = <<>>
        /\ TraceIdx("getPR") = {}
        /\ TraceIdx("getDT") = {}


\* drawOval or drawRRect of a shape that is not empty.
OvalOrRRectCall ==
    /\ Live
    /\ last.op \in {"drawOval", "drawRRect"}
    /\ ~RectIsEmpty(last.args.rect.rect)

\* The batch kinds of the two entry points: instanced, and specialized.
ShapeInstKind == IF last.op = "drawOval" THEN "InstOval" ELSE "InstRRect"
ShapeBatchKind == IF last.op = "drawOval" THEN "Oval" ELSE "RRect"

\* The call submitted exactly one batch, of the given kind, for the shape.
OneShapeBatch(kind) ==
    /\ Len(Cmds) = 1
    /\ Cmds[1].kind = kind
    /\ Cmds[1].rect = last.args.rect.rect
    /\ Cmds[1].vm = last.args.vm

\* C14 as stated: the three routes in order, and as their consequence an
\* antialiased filled oval on a target that is not multisampled and has no
\* instanced renderer gives one AA oval batch and no path-renderer query.
C14_Original ==
    (OvalOrRRectCall /\ last.op = "drawOval" /\ last.args.style.kind = "fill"
        /\ last.args.paint.aa /\ ~caps.msaa /\ ~caps.instanced)
    => (OneShapeBatch("Oval") /\ TraceIdx("getPR") = {})

\* C14, amended: drawOval and drawRRect of a non-empty shape take the first
\* route that applies: the instanced renderer, asked only for a fill style on a
\* target that has one, when it returns a batch; else the specialized oval or
\* round-rect batch, when coverage AA applies and the factory returns a batch;
\* else path drawing.  The first two submit exactly that one batch and query no
\* path renderer; the last queries the renderer chain and submits nothing but
\* what the renderer draws.
C14_ShapeRoutes ==
    OvalOrRRectCall =>
        LET a == last.args
            instanced == caps.instanced /\ a.style.kind = "fill" /\ last.o.ir # "null"
            coverage == a.paint.aa /\ ~caps.msaa /\ last.o.ok
        IN  IF instanced
            THEN OneShapeBatch(ShapeInstKind) /\ TraceIdx("getPR") = {}
            ELSE IF coverage
            THEN OneShapeBatch(ShapeBatchKind) /\ TraceIdx("getPR") = {}
            ELSE /\ TraceIdx("getPR") # {}
                 /\ \A i \in 1..Len(Cmds) : Cmds[i].kind \in {"Path", "SWPath"}
                 /\ Len(Cmds) = Cardinality(TraceIdx("prDraw"))

\* An antialiased filled oval for which the instanced renderer of the target
\* gave no batch was drawn with the oval batch.
C14_Witness ==
    /\ OvalOrRRectCall
    /\ last.op = "drawOval"
    /\ last.args.style.kind = "fill"
    /\ caps.instanced
    /\ last.o.ir = "null"
    /\ OneShapeBatch("Oval")


\* drawDRRect of two round rects that are not empty.
DRRectCall ==
    /\ Live
    /\ last.op = "drawDRRect"
    /\ ~RectIsEmpty(last.args.rect.rect)
    /\ ~RRectIsEmpty(last.args.inner)

\* Where drawFilledDRRect returned in the trace, and whether with true.
DRRectIdx == CHOOSE k \in TraceIdx("filledDRRect") : TRUE
DRRectFilled == last.trace[DRRectIdx].flag
\* The instanced renderer of the target returned a batch for the shape.
DRRectInstanced == caps.instanced /\ last.o.ir # "null"
\* The outer round rect's bounds in device space, outset by half a pixel when
\* coverage AA applies, and the two effects on the round rects in device space.
DRRectCoverageAA == last.args.paint.aa /\ ~caps.msaa
DRRectBounds ==
    LET b == MapRect(last.args.vm, last.args.rect.rect)
    IN  IF DRRectCoverageAA THEN RectOutset(b, 1, 1) ELSE b
DRRectEffects ==
    <<[edge |-> IF DRRectCoverageAA THEN "inverseFillAA" ELSE "inverseFillBW",
       rect |-> MapRect(last.args.vm, last.args.inner.rect), rad |-> last.args.inner.rad],
      [edge |-> IF DRRectCoverageAA THEN "fillAA" ELSE "fillBW",
       rect |-> MapRect(last.args.vm, last.args.rect.rect), rad |-> last.args.color]>>
\* The draw is one rect fill, under the identity matrix, of the bounds
\* cropped to the clip, with the two effects; it is left out when the bounds
\* miss the clip.
DRRectOneRect ==
    LET clipBounds == ClipConservativeBounds(last.args.clip)
    IN  IF RectIntersects(DRRectBounds, clipBounds)
        THEN /\ Len(Cmds) = 1
             /\ Cmds[1].kind \in {"NonAAFill", "AAFill", "InstRect"}
             /\ Cmds[1].rect = RectMeet(DRRectBounds, clipBounds)
             /\ Cmds[1].vm = "I"
             /\ Cmds[1].cov = DRRectEffects
             /\ Cmds[1].color = last.args.paint.color
             /\ last.args.paint.cov = <<>>
        ELSE Cmds = <<>>

\* C15 as stated: drawDRRect falls back to path drawing exactly when
\* drawFilledDRRect fails, which submits nothing when it fails; when it
\* succeeds the draw is a single rect covering the outer round rect's device
\* bounds that carries exactly two coverage effects, inverse-fill inner then
\* normal-fill outer, on a copy of the paint.
C15_Original ==
    DRRectCall =>
        /\ (TraceIdx("getPR") # {}) <=> ~DRRectFilled
        /\ ~DRRectFilled => SubmitsUpTo(DRRectIdx) = <<>>
        /\ DRRectFilled => DRRectOneRect

\* C15, amended: drawFilledDRRect fails exactly when the instanced renderer
\* gave no batch and a round rect cannot be transformed, the matrix is not
\* invertible or an effect cannot be made; it then has submitted nothing, and
\* drawDRRect falls back to path drawing exactly then.  When it succeeds, the
\* draw is either the instanced renderer's batch, with no coverage effect, or
\* a rect fill under the identity matrix of the outer round rect's device
\* bounds (outset by half a pixel under coverage AA) cropped to the clip,
\* carrying exactly the two effects, inverse-fill inner then normal-fill outer,
\* on a copy of the paint; nothing is drawn when the bounds miss the clip.
C15_DRRect ==
    DRRectCall =>
        LET vm == last.args.vm
            cannot == \/ ~IsIdentity(vm) /\ (~RectStaysRect(vm) \/ ~Invertible(vm))
                      \/ ~last.o.ok
        IN  /\ ~DRRectFilled <=> (~DRRectInstanced /\ cannot)
            /\ (TraceIdx("getPR") # {}) <=> ~DRRectFilled
            /\ ~DRRectFilled => SubmitsUpTo(DRRectIdx) = <<>>
            /\ (DRRectFilled /\ DRRectInstanced)
                  => /\ Len(Cmds) = 1
                     /\ Cmds[1].kind = "InstDRRect"
                     /\ Cmds[1].cov = <<>>
            /\ (DRRectFilled /\ ~DRRectInstanced) => DRRectOneRect

\* Under a translation, with no instanced batch, the draw was one rect fill
\* with the two effects.
C15_Witness ==
    /\ DRRectCall
    /\ last.args.vm = "T"
    /\ DRRectFilled
    /\ ~DRRectInstanced
    /\ Len(Cmds) = 1
    /\ Len(Cmds[1].cov) = 2


-----------------------------------------------------------------------------
(* C16 - C18: drawPath                                                      *)

DrawPathCall == Live /\ last.op = "drawPath"

\* C16: drawPath with an empty path: with an inverse fill type it submits
\* exactly what drawPaint with the same clip, paint and matrix submits; with a
\* normal fill type it submits nothing.
C16_EmptyPath ==
    (DrawPathCall /\ PathIsEmpty(last.args.path)) =>
        IF last.args.path.inverse
        THEN LET painted == drawPaint(Fresh, last.args.clip, last.args.paint,
                                      last.args.vm, last.o)
             IN  /\ Cmds = CmdsFrom(painted)
                 /\ last.trace = painted.trace
        ELSE last.trace = <<>>

\* An empty inverse-filled path was drawn, and something was submitted for it.
C16_Witness ==
    /\ DrawPathCall
    /\ PathIsEmpty(last.args.path)
    /\ last.args.path.inverse
    /\ Len(Cmds) >= 1


\* drawPath of a path of two nested rects, and the margins between them.
NestedCall == DrawPathCall /\ last.args.path.geom = "nested"
NestedMargins ==
    LET outer == last.args.path.rect
        inner == last.args.path.inner
    IN  {Abs(outer.l - inner.l), Abs(outer.t - inner.t),
         Abs(outer.r - inner.r), Abs(outer.b - inner.b)}
\* One device unit is 2.
MarginsUniform == Cardinality(NestedMargins) = 1
MarginsAtLeast1 == \A m \in NestedMargins : m >= 2
SomeMarginBelow1 == \E m \in NestedMargins : m < 2
NestedBatches == SelectSeq(Cmds, LAMBDA c : c.kind = "AANestedRects")
\* The call submitted the nested-rect AA batch of the two rects, and only it.
OneNestedBatch ==
    /\ Len(Cmds) = 1
    /\ Cmds[1].kind = "AANestedRects"
    /\ Cmds[1].rect = last.args.path.rect
    /\ Cmds[1].inner = last.args.path.inner

\* C17 as stated: drawPath of two nested rects with opposite winding and a
\* uniform margin of at least one device unit always submits the nested-rect
\* AA batch and never queries the path renderer chain; a path with non-uniform
\* margins, one of them below one unit, is never drawn with that batch.
C17_Original ==
    /\ (NestedCall /\ ~last.args.path.sameDir /\ MarginsUniform /\ MarginsAtLeast1)
          => (OneNestedBatch /\ TraceIdx("getPR") = {})
    /\ (NestedCall /\ ~MarginsUniform /\ SomeMarginBelow1) => NestedBatches = <<>>

\* C17, amended: when coverage AA applies, the style is a simple fill, the
\* view matrix keeps rects rects and the fill type is not inverse, drawPath of
\* two nested rects that are wound in opposite directions (or filled even-odd)
\* and whose margins are uniform or all at least one device unit never queries
\* the path renderer chain, and submits the nested-rect AA batch when the
\* factory returns one and nothing otherwise.  In every other case no
\* nested-rect batch is submitted; in particular never for non-uniform margins
\* with one below one unit.
C17_NestedRects ==
    NestedCall =>
        LET a == last.args
            accepted == /\ a.paint.aa /\ ~caps.msaa
                        /\ IsSimpleFill(a.style)
                        /\ RectStaysRect(a.vm)
                        /\ ~a.path.inverse
                        /\ ~a.path.sameDir \/ a.path.evenOdd
                        /\ MarginsUniform \/ MarginsAtLeast1
        IN  /\ accepted => /\ TraceIdx("getPR") = {}
                            /\ IF last.o.ok THEN OneNestedBatch ELSE Cmds = <<>>
            /\ ~accepted => NestedBatches = <<>>
            /\ (~MarginsUniform /\ SomeMarginBelow1) => NestedBatches = <<>>

\* Nested rects with a uniform margin of one unit were drawn with the
\* nested-rect batch.
C17_Witness ==
    /\ NestedCall
    /\ ~last.args.path.sameDir
    /\ NestedMargins = {2}
    /\ OneNestedBatch


\* drawPath of a path that is exactly an oval.
OvalPathCall == DrawPathCall /\ last.args.path.geom = "oval"
OvalBatches == SelectSeq(Cmds, LAMBDA c : c.kind = "Oval")
OneOvalBatch ==
    /\ Len(Cmds) = 1
    /\ Cmds[1].kind = "Oval"
    /\ Cmds[1].rect = last.args.path.rect

\* C18 as stated: when coverage AA applies and the style has no path effect,
\* drawPath of an oval path, whatever the stroke style and the fill type, is
\* drawn with one oval batch and without the path renderer chain.
C18_Original ==
    (OvalPathCall /\ last.args.paint.aa /\ ~caps.msaa /\ ~last.args.style.pathEffect)
    => (OneOvalBatch /\ TraceIdx("getPR") = {})

\* C18, amended: when coverage AA applies and the style has no path effect,
\* drawPath of an oval path whose fill type is not inverse, whatever the
\* stroke style, is drawn with one oval batch and without the path renderer
\* chain if the oval batch factory returns a batch; an inverse-filled oval, and
\* one for which the factory returns none, goes through the path renderer
\* chain.  Without coverage AA, or with a path effect, no oval batch is
\* submitted.
C18_OvalPath ==
    OvalPathCall =>
        IF last.args.paint.aa /\ ~caps.msaa /\ ~last.args.style.pathEffect
        THEN IF ~last.args.path.inverse /\ last.o.ok
             THEN OneOvalBatch /\ TraceIdx("getPR") = {}
             ELSE OvalBatches = <<>> /\ TraceIdx("getPR") # {}
        ELSE OvalBatches = <<>> /\ TraceIdx("getPR") # {}

\* A stroked oval path with the even-odd fill type was drawn with the oval
\* batch.
C18_Witness ==
    /\ OvalPathCall
    /\ last.args.style.kind = "stroke"
    /\ last.args.path.evenOdd
    /\ OneOvalBatch


-----------------------------------------------------------------------------
(* C19 - C20: the path renderer chain                                       *)

\* The queries of the renderer chain and the renderer draws of the last
\* call, in trace order.
Queries == SelectSeq(last.trace, LAMBDA ev : ev.e = "getPR")
RendererDraws == SelectSeq(last.trace, LAMBDA ev : ev.e = "prDraw")
\* A call whose path drawing, if any, is internalDrawPath's.
InternalPathCall == Live /\ last.op # "drawAndStencilPath"

\* C19: internalDrawPath queries the chain in at most three tiers, in order:
\* tier 1 with software disallowed; tier 2, software disallowed, only if tier
\* 1 found nothing and the style has a path effect; tier 3, software allowed,
\* only if nothing was found before.  Software is requested at tier 3 only;
\* the selected renderer draws at most once, with the shape of the tier that
\* found it; and nothing is drawn if no tier finds a renderer or the shape
\* becomes empty when the path effect or the style is applied.
C19_Tiers ==
    InternalPathCall =>
        LET Q == Queries
            D == RendererDraws
            style == last.args.style
            path == last.args.path
        IN  /\ Len(Q) <= 3
            /\ Q # <<>> => Q[1].aux = 1
            /\ \A i \in 1..Len(Q) :
                  /\ i > 1 => (Q[i].aux > Q[i - 1].aux /\ ~Q[i - 1].flag2)
                  /\ Q[i].aux \in {1, 2} => ~Q[i].flag
                  /\ Q[i].aux = 2 => style.pathEffect
                  /\ Q[i].aux = 3 => Q[i].flag
            /\ Len(D) <= 1
            /\ D # <<>> => /\ Q # <<>>
                            /\ Q[Len(Q)].flag2
                            /\ D[1].aux = Q[Len(Q)].aux
                            /\ D[1].flag => D[1].aux = 3
            /\ (Q # <<>> /\ ~Q[Len(Q)].flag2)
                  => /\ D = <<>>
                     /\ \A k \in 1..Len(last.trace) :
                           (last.trace[k].e = "submit") => \E j \in TraceIdx("getPR") : k < j
            /\ (last.op = "drawPath" /\ Q # <<>> /\ \A i \in 1..Len(Q) : ~Q[i].flag2)
                  => /\ (style.pathEffect /\ path.peEmpty) => Len(Q) = 1
                     /\ (style.kind \in {"stroke", "strokeAndFill"} /\ path.strokeEmpty)
                           => Q[Len(Q)].aux # 3

\* A path with a path effect was asked for at all three tiers, and drawn by
\* the software renderer found at the third.
C19_Witness ==
    /\ InternalPathCall
    /\ last.op = "drawPath"
    /\ Len(Queries) = 3
    /\ Len(RendererDraws) = 1
    /\ RendererDraws[1].flag
    /\ RendererDraws[1].aux = 3


-----------------------------------------------------------------------------
(* C21: the same call issued twice in a row                                 *)

\* The call of entry point op with the recorded arguments a, on the state st
\* and with the collaborator answers o.
Issue(op, a, st, o) ==
    CASE op = "clear" -> clear(st, a.rect, a.color, a.flag, o)
      [] op = "discard" -> discard(st, o)
      [] op = "copySurface" -> copySurface(st, o)
      [] op = "drawBatch" -> drawBatch(st, TargetCmd("Batch", PartRect, a.color))
      [] op = "drawPaint" -> drawPaint(st, a.clip, a.paint, a.vm, o)
      [] op = "drawRect" -> drawRect(st, a.clip, a.paint, a.vm, a.rect.rect, a.style, o)
      [] op = "drawRRect" ->
            drawRRect(st, a.clip, a.paint, a.vm, RRect(a.rect.rect, 1), a.style, o)
      [] op = "clearStencilClip" -> clearStencilClip(st, a.rect.rect, o)
      [] op = "stencilPath" ->
            stencilPath(st, NoClip, TRUE, a.flag, "I", PathOfRect(a.rect.rect))
      [] op = "stencilRect" -> stencilRect(st, a.clip, a.ss, a.flag, a.vm, a.rect.rect, o)
      [] op = "drawAndStencilRect" ->
            drawAndStencilRect(st, a.clip, a.ss, a.flag, a.vm, a.rect.rect, o)
      [] op = "drawAndStencilPath" ->
            drawAndStencilPath(st, NoClip, TRUE, a.flag, "I", a.path, o)
      [] op = "drawOval" -> drawOval(st, a.clip, a.paint, a.vm, a.rect.rect, a.style, o)
      [] op = "drawDRRect" ->
            drawDRRect(st, a.clip, a.paint, a.vm, RRect(a.rect.rect, a.color), a.inner, o)
      [] op = "fillRectWithLocalMatrix" ->
            fillRectWithLocalMatrix(st, a.clip, a.paint, a.vm, a.rect.rect, LocalMatrix("T"), o)
      [] op = "drawPath" -> drawPath(st, a.clip, a.paint, a.vm, a.path, a.style, o)
      [] op = "fillRectToRect" ->
            fillRectToRect(st, a.clip, a.paint, a.vm, a.rect.rect, a.inner.rect, o)
      [] op = "drawVertices" -> drawVertices(st, NoClip, a.paint, a.vm, a.flag, a.rect, o)
      [] OTHER -> st

\* The last call issued once more.
Reissue(st, o) == Issue(last.op, last.args, st, o)

\* The second call runs on the state the first one left, on the same context.
Again(flushAt) == Reissue(Start(last.ctx), [last.o EXCEPT !.flushAt = flushAt])
\* The submissions of a run, in order.
SubmitsOf(st) == SelectSeq(st.trace, LAMBDA ev : ev.e = "submit")
\* The flush patterns of the second call that are compared.
FlushPatterns == {last.o.flushAt, {}, {1}}

-----------------------------------------------------------------------------
(* C29: the references a draw context takes on draw targets                 *)

\* The draw contexts that hold draw target i.
Holders(i) == {c \in Ctxs : alive[c] /\ handle[c] = i}

\* C29: a draw context holds a reference on at most one draw target at a
\* time and releases every reference it took, when its handle is replaced or
\* when it is destroyed: every draw target carries one reference for each
\* existing draw context that holds it and no other, so that none is left
\* once the contexts are destroyed.
C29_Original ==
    \A i \in 1..Len(dts) : dts[i].refs = Cardinality(Holders(i))

\* The references of draw contexts that no longer hold the target.
C29_LeakedRefs ==
    [i \in 1..Len(dts) |-> dts[i].refs - Cardinality(Holders(i))]

-----------------------------------------------------------------------------
(* C27: null batches                                                        *)

\* C27: whatever the batch factories return, no entry point hands a null
\* batch to the draw target: every command a call submits carries a batch
\* that is not null.
C27_Original ==
    ~Idle => \A k \in 1..Len(Cmds) : ~Cmds[k].isNull

-----------------------------------------------------------------------------
(* C22: calls that end in a failure path                                    *)

\* The last call ended in one of the failure paths: a view matrix that cannot
\* be inverted where drawPaint, drawRect or crop_filled_rect inverts it, no
\* path renderer for the shape or nothing left of the shape once the style is
\* applied (a renderer was asked for and none drew), or vertices without
\* bounds.
FailedCall ==
    LET a == last.args IN
    /\ Live
    /\ \/ /\ last.op = "drawPaint" /\ ~Invertible(a.vm)
       \/ /\ last.op = "drawPath" /\ PathIsEmpty(a.path) /\ a.path.inverse
          /\ ~Invertible(a.vm)
       \/ /\ last.op = "drawRect" /\ a.style.kind = "fill" /\ ~Invertible(a.vm)
          /\ \/ RectStaysRect(a.vm)
             \/ ~caps.useDrawInsteadOfClear /\ ClipQuickContains(a.clip, RtRect)
       \/ /\ last.op \in {"fillRectToRect", "fillRectWithLocalMatrix"}
          /\ RectStaysRect(a.vm) /\ ~Invertible(a.vm)
       \/ /\ TraceIdx("getPR") # {} /\ TraceIdx("prDraw") = {}
       \/ /\ last.op = "drawVertices" /\ a.rect.isNull

\* Calls that may follow, and the answers they may get.
Probes ==
    {[op |-> "drawRect", args |-> a] : a \in DrawRectArgs(FALSE)}
    \cup {[op |-> "drawPath", args |-> a] : a \in DrawPathArgs(FALSE)}
    \cup {[op |-> "discard", args |-> NoArgs]}
ProbeOracles == {[NoOracle EXCEPT !.flushAt = f, !.pr = "t1"] : f \in {{}, {1}}}
\* What a run shows of its submissions: the commands, and whether the draw
\* target each went to was open.
Outcome(st) ==
    [cmds |-> [k \in 1..Len(SubmitsOf(st)) |->
                  [cmd |-> SubmitsOf(st)[k].cmd, open |-> SubmitsOf(st)[k].flag]],
     ret |-> st.ret]

\* C22: a call on a live context that ends in a failure path submits
\* nothing and leaves the context live and in existence, and any call made
\* next on that context submits the commands, and returns the value, it
\* would have had the failed call not been made (Fresh is the state the
\* failed call started on).
C22_FailedCallLeavesNoMark ==
    FailedCall =>
        /\ Cmds = <<>>
        /\ ~abandoned /\ alive[last.ctx]
        /\ \A q \in Probes : \A o \in ProbeOracles :
              Outcome(Issue(q.op, q.args, Start(last.ctx), o))
                  = Outcome(Issue(q.op, q.args, Fresh, o))

\* A call found no path renderer after it had requested a draw target, and
\* its checkpoint flushed: the context is left holding a closed draw target.
C22_Witness ==
    /\ FailedCall
    /\ TraceIdx("getPR") # {} /\ TraceIdx("getDT") # {}
    /\ HeldClosed(Start(last.ctx))

-----------------------------------------------------------------------------
(* C23: drawPaint                                                           *)

DrawPaintCall == Live /\ last.op = "drawPaint"
\* The batch kinds that compute coverage for antialiasing.
CoverageAAKinds == {"AAFill", "AAStroke", "Oval", "RRect", "AANestedRects"}
InstancedKinds == {"InstRect", "InstOval", "InstRRect", "InstDRRect"}

\* C23: drawPaint draws with a copy of the caller's paint whose antialias
\* flag is cleared: no batch it submits is built from an antialiased paint or
\* is a coverage-AA batch, and none but an instanced batch (whose flag the
\* instanced renderer sets) has the hardware-AA flag; the caller's paint is
\* as it was.  With a matrix without perspective it submits what drawRect
\* does for the whole-target rect mapped through the inverse matrix; with
\* perspective, one non-AA filled rect over the whole target with the
\* identity as view matrix and the inverse as local matrix; with a matrix
\* that cannot be inverted, nothing.
C23_DrawPaint ==
    DrawPaintCall =>
        LET a == last.args
            noAA == [a.paint EXCEPT !.aa = FALSE]
        IN  /\ \A k \in 1..Len(Batches) :
                  /\ ~Batches[k].aa
                  /\ Batches[k].kind \notin CoverageAAKinds
                  /\ Batches[k].kind \notin InstancedKinds => ~Batches[k].hwaa
            /\ ~Invertible(a.vm) => Cmds = <<>>
            /\ (Invertible(a.vm) /\ ~HasPerspective(a.vm)) =>
                  Cmds = CmdsFrom(drawRect(Fresh, a.clip, noAA, a.vm,
                                           InvMapRect(a.vm, RtRect), SimpleFill, last.o))
            /\ (Invertible(a.vm) /\ HasPerspective(a.vm)) =>
                  /\ Len(Cmds) = 1
                  /\ Cmds[1].kind = "NonAAFill" /\ Cmds[1].rect = RtRect
                  /\ Cmds[1].vm = "I" /\ Cmds[1].local = "inverse"

\* drawPaint with an antialiased paint on a unified-multisampled target
\* submitted a filled rect without hardware AA.
C23_Witness ==
    /\ DrawPaintCall
    /\ last.args.paint.aa /\ caps.msaa
    /\ Len(Batches) = 1
    /\ Batches[1].kind = "NonAAFill" /\ ~Batches[1].hwaa

-----------------------------------------------------------------------------
(* C24: what drawAndStencilRect and drawAndStencilPath return               *)

StencilDrawCall == Live /\ last.op \in {"drawAndStencilRect", "drawAndStencilPath"}
\* The call went to the path renderers: always, for a path that is not an
\* empty inverse-filled one, and for a rect when drawFilledRect returned false.
StencilAsPath ==
    IF last.op = "drawAndStencilPath"
    THEN ~(PathIsEmpty(last.args.path) /\ last.args.path.inverse)
    ELSE \E k \in TraceIdx("filled") : ~last.trace[k].flag
\* A renderer was found by the call's query.
StencilFound == \E k \in TraceIdx("getPR") : last.trace[k].flag2

\* C24: drawAndStencilRect returns true when drawFilledRect handled the
\* rect and otherwise what drawAndStencilPath returns for the rect as a path;
\* drawAndStencilPath returns true for an empty inverse-filled path, after
\* the whole-target rect was drawn without AA and no renderer was asked for;
\* otherwise it asks for a renderer once, software not allowed, and returns
\* false with nothing submitted when there is none, and true after that
\* renderer drew exactly once.
C24_StencilReturns ==
    StencilDrawCall =>
        /\ ~StencilAsPath =>
              /\ last.ret = "true"
              /\ TraceIdx("getPR") = {} /\ TraceIdx("prDraw") = {}
              /\ Cardinality(TraceIdx("filled")) = 1
              /\ last.op = "drawAndStencilPath" =>
                    /\ Len(Batches) = 1
                    /\ Batches[1].kind \in FillKinds
                    /\ Batches[1].rect = RtRect /\ Batches[1].vm = "I"
                    /\ ~Batches[1].aa
        /\ StencilAsPath =>
              /\ Cardinality(TraceIdx("getPR")) = 1
              /\ \A k \in TraceIdx("getPR") : ~last.trace[k].flag
              /\ StencilFound =>
                    /\ last.ret = "true"
                    /\ Cardinality(TraceIdx("prDraw")) = 1
                    /\ \A k \in TraceIdx("prDraw") : ~last.trace[k].flag
                    /\ Len(Batches) = 1
              /\ ~StencilFound =>
                    /\ last.ret = "false"
                    /\ Cmds = <<>>

\* drawAndStencilRect, whose rect drawFilledRect did not handle, returned
\* true after a path renderer drew the rect.
C24_Witness ==
    /\ StencilDrawCall /\ last.op = "drawAndStencilRect"
    /\ StencilAsPath /\ StencilFound
    /\ last.ret = "true"
    /\ Cardinality(TraceIdx("prDraw")) = 1

-----------------------------------------------------------------------------
(* C25: cropping a filled rect to the clip                                  *)

\* A call of an entry point that crops its rect before anything else.
CropCall == Live /\ last.op \in {"fillRectToRect", "fillRectWithLocalMatrix"}
CropRect == last.args.rect.rect
CropLocalRect == last.args.inner.rect
\* The clip's conservative device bounds, mapped through the inverse matrix.
CropClipBounds == InvMapRect(last.args.vm, ClipConservativeBounds(last.args.clip))
\* The call returned at the crop: it did nothing at all.
CropSkipped == last.trace = <<>>
RectInside(a, b) == a.l >= b.l /\ a.t >= b.t /\ a.r <= b.r /\ a.b <= b.b
\* The local rect lr of the batch is the call's local rect with each side
\* moved by the length cut from the rect r on that side, times
\* localSize / rectSize.
ShrunkInProportion(r, lr) ==
    LET R == CropRect
        L == CropLocalRect
    IN  /\ (lr.l - L.l) * RectWidth(R) = (r.l - R.l) * RectWidth(L)
        /\ (L.r - lr.r) * RectWidth(R) = (R.r - r.r) * RectWidth(L)
        /\ (lr.t - L.t) * RectHeight(R) = (r.t - R.t) * RectHeight(L)
        /\ (L.b - lr.b) * RectHeight(R) = (R.b - r.b) * RectHeight(L)

\* C25: with a view matrix that does not keep rects as rects the rect is
\* drawn uncropped; with one that does, the draw is skipped exactly when the
\* matrix cannot be inverted or the rect does not intersect the clip's
\* conservative bounds mapped through the inverse; otherwise the rect drawn
\* lies inside both the rect given and the mapped clip bounds, and the local
\* rect drawn with it is shrunk on each cropped side in proportion
\* localSize / rectSize.
C25_CropFilledRect ==
    CropCall =>
        LET vm == last.args.vm IN
        /\ ~RectStaysRect(vm) =>
              /\ ~CropSkipped
              /\ \A k \in 1..Len(Batches) :
                    /\ Batches[k].rect = CropRect
                    /\ last.op = "fillRectToRect" => Batches[k].localRect = CropLocalRect
        /\ RectStaysRect(vm) =>
              /\ CropSkipped <=>
                    (~Invertible(vm) \/ ~RectIntersects(CropRect, CropClipBounds))
              /\ \A k \in 1..Len(Batches) :
                    /\ RectInside(Batches[k].rect, CropRect)
                    /\ RectInside(Batches[k].rect, CropClipBounds)
                    /\ ~RectIsEmpty(Batches[k].rect)
                    /\ last.op = "fillRectToRect" =>
                          ShrunkInProportion(Batches[k].rect, Batches[k].localRect)

\* fillRectToRect drew a rect cut by the clip on all four sides, with a
\* local rect twice its size that was shrunk on all four sides.
C25_Witness ==
    /\ CropCall /\ last.op = "fillRectToRect"
    /\ Len(Batches) = 1
    /\ LET r == Batches[1].rect
           lr == Batches[1].localRect
       IN  /\ r.l > CropRect.l /\ r.t > CropRect.t /\ r.r < CropRect.r /\ r.b < CropRect.b
           /\ lr.l > CropLocalRect.l /\ lr.t > CropLocalRect.t
           /\ lr.r < CropLocalRect.r /\ lr.b < CropLocalRect.b
           /\ RectWidth(CropLocalRect) = 2 * RectWidth(CropRect)

-----------------------------------------------------------------------------
(* C26: drawRect with a stroke or hairline style                            *)

\* drawRect with a stroke or hairline style that is not turned into a fill.
StrokeRectCall ==
    /\ Live /\ last.op = "drawRect"
    /\ last.args.style.kind \in {"stroke", "hairline"}
    /\ ~StrokeDegenerate
StrokeBatches == SelectSeq(Cmds, LAMBDA c : c.kind \in {"AAStroke", "NonAAStroke"})
\* Coverage AA applies: the paint is antialiased and the target is not
\* unified-multisampled.
StrokeCoverageAA == last.args.paint.aa /\ ~caps.msaa

\* C26: a stroke or hairline drawRect submits an AA stroke batch only when
\* coverage AA applies and the view matrix keeps rects axis-aligned, a non-AA
\* stroke batch only when coverage AA does not apply, and the batch has the
\* snap-to-pixel-centers flag exactly for a hairline without coverage AA on a
\* target that is not unified-multisampled; when there is no stroke batch
\* (coverage AA with a matrix that does not keep rects, or a null batch) the
\* rect goes to general path drawing as a path with the stroke style given.
C26_StrokeRect ==
    StrokeRectCall =>
        LET a == last.args IN
        /\ Len(StrokeBatches) <= 1
        /\ \A k \in 1..Len(StrokeBatches) :
              LET b == StrokeBatches[k] IN
              /\ b.kind = "AAStroke" => (StrokeCoverageAA /\ RectStaysRect(a.vm))
              /\ b.kind = "NonAAStroke" => ~StrokeCoverageAA
              /\ b.snap <=> (a.style.kind = "hairline" /\ ~StrokeCoverageAA /\ ~caps.msaa)
              /\ b.rect = a.rect.rect /\ b.vm = a.vm
              /\ b.hwaa <=> (a.paint.aa /\ caps.msaa)
        /\ StrokeBatches # <<>> =>
              /\ Len(Cmds) = 1
              /\ TraceIdx("getPR") = {}
        /\ StrokeBatches = <<>> =>
              /\ (StrokeCoverageAA /\ ~RectStaysRect(a.vm)) \/ ~last.o.ok
              /\ TraceIdx("getPR") # {}
              /\ Cmds = CmdsFrom(internalDrawPath(Fresh, a.clip, a.paint, a.vm,
                                                  PathOfRect(a.rect.rect), a.style, last.o))

\* A hairline drawn without antialiasing on a target that is not
\* multisampled: one non-AA stroke batch with the snap flag.
C26_Witness ==
    /\ StrokeRectCall
    /\ last.args.style.kind = "hairline"
    /\ Len(StrokeBatches) = 1
    /\ StrokeBatches[1].kind = "NonAAStroke" /\ StrokeBatches[1].snap

-----------------------------------------------------------------------------
(* C30: the antialiasing mode of a batch                                    *)

\* The batches the draw context builds a pipeline for, other than through
\* the instanced renderer.
PipelineKinds ==
    CoverageAAKinds \cup {"NonAAFill", "NonAAStroke", "Vertices", "Path", "SWPath"}
PipelineBatches == SelectSeq(Cmds, LAMBDA c : c.kind \in PipelineKinds)
\* The mode of a batch, from the antialias flag of the paint its pipeline is
\* built from and from the target.
AAMode(b) ==
    IF ~b.aa THEN "off" ELSE IF caps.msaa THEN "hardware" ELSE "coverage"

-----------------------------------------------------------------------------
(* C28: how often a call re-enters the handlers                             *)

\* The activations of the last call, the innermost first.
Frames == last.frames
FramesOf(fn) == {k \in 1..Len(Frames) : Frames[k].fn = fn}
\* The activation k was called by an activation of the handler outer, and is
\* one of the handler inner.
CalledBy(k, inner, outer) ==
    /\ k < Len(Frames)
    /\ Frames[k].fn = inner
    /\ Frames[k + 1].fn = outer
\* The deepest chain of calls, the innermost first.
DeepestChain == <<"clear", "drawRect", "drawPaint", "drawPath">>

=============================================================================
